---- MODULE Spec2Model ----
(***************************************************************************)
(* Regime-inference and forecasting engine of gzarog/Markov.               *)
(*                                                                         *)
(* JavaScript numbers are modelled as exact rationals <<n, d>> in lowest   *)
(* terms (d > 0); <<0, 0>> stands for NaN and <<1, 0>>, <<-1, 0>> for the  *)
(* infinities.  Probability identities are therefore checked exactly; the  *)
(* floating-point rounding of the build (the 1e-9 tolerance of the         *)
(* specification) is outside the model.                                    *)
(***************************************************************************)
EXTENDS Integers, Sequences, FiniteSets, TLC

VARIABLES
    pc,          \* position of the computation under study
    states,      \* the state history handed to the Markov builder / models
    options,     \* BuildOptions of buildMarkovWeighted
    build,       \* MarkovBuildResult.probs of the options variant
    legacy,      \* probs of the legacy (window, smoothing, halfLife) variant
    rowBase,     \* the Markov row of the current state handed to the correction
    semiOpts,    \* SemiMarkovOptions {smoothing, minSamples}
    adjusted,    \* the row returned by semiMarkovAdjustFirstRow
    components,  \* the rows handed to blendRows
    blendWeights,\* the weights handed to blendRows
    rowBlended,  \* the row returned by blendRows
    transition,  \* the transition matrix handed to multiStepForecast
    currentState,\* the current state handed to multiStepForecast
    steps,       \* horizon name -> step count
    firstRowAdj, \* the adjusted first row, or Undefined
    forecasts,   \* horizon name -> forecast vector
    table,       \* the order-2 count table: observed (prev, current) -> counts
    pair,        \* the (prev, current) pair looked up
    minCount,    \* the minimum count handed to rowFromOrder2
    rowOrder2,   \* the row returned by rowFromOrder2, or Null
    props,       \* useBybitData arguments: the (symbol, interval, limit) key and refreshMs
    data,        \* published candles: the id of the request that produced them, 0 for null
    error,       \* published error: the id of the request that failed, 0 for null
    loading,     \* the loading flag
    tick,        \* tickRef.current
    requests,    \* every fetch started so far, in order: its key and its status
    kmData,      \* the standardized feature vectors handed to kMeans
    kmK,         \* the number of clusters
    km,          \* the running kMeans call: centroids, assignments, distances, iter
    kmFirst,     \* the KMeansResult of the first run, kept for the second
    candleRows,  \* App: the number of rows of the published candle array
    cfg,         \* App: the configuration object handed to computeAll
    calc,        \* App: the value of the calc memo, what every panel reads
    lastCompute, \* App: how the last evaluation of the calc memo went
    autoCfg,     \* computeAll: cfg.halfLife and cfg.autoHalfLife
    scores,      \* computeAll: mean log-likelihood of the matrix built per half-life
    bestHalfLife,\* computeAll: model.halfLifeUsed
    features,    \* the feature vector handed to conditionedRow
    logitModel,  \* the LogitModel handed to conditionedRow
    rowConditioned, \* the row returned by conditionedRow
    exponent,    \* the power handed to matPow
    power,       \* the matrix returned by matPow
    storage,     \* localStorage: the item under STORAGE_KEY
    loaded,      \* what loadLogitModel returned
    durationMap, \* the DurationMap returned by estimateDurations
    trailingRun, \* the number returned by computeRunLength
    regimeRows,  \* inferRegimeStates: per row its rule state, htfState and clustering outcome
    regimeOpts,  \* RegimeInferenceOptions {confidenceGate, smoothPasses}
    combinedStates, \* inferRegimeStates: the reconciled states handed to smoothStates
    smoothedStates, \* smoothStates: the sequence after the passes made so far
    learnedStates,     \* inferRegimeStates: per row the state of its cluster, or Null
    learnedConfidence, \* inferRegimeStates: per row the confidence of its cluster assignment
    passesDone,  \* smoothStates: the number of passes made
    clusterInput,\* computeClusterProfiles arguments: feature rows and assignments
    profiles,    \* the ClusterProfile list
    clusterMap   \* the cluster -> state record of assignStatesFromClusters

varsBuild == <<options, build, legacy>>

varsSemi == <<rowBase, semiOpts, adjusted>>

varsBlend == <<components, blendWeights, rowBlended>>

varsForecast == <<transition, currentState, steps, firstRowAdj, forecasts>>

varsOrder2 == <<table, pair, minCount, rowOrder2>>

varsFetch == <<props, data, error, loading, tick, requests>>

varsKMeans == <<kmData, kmK, km, kmFirst>>

varsApp == <<candleRows, cfg, calc, lastCompute>>

varsSelector == <<autoCfg, scores, bestHalfLife>>

varsConditioning == <<features, logitModel, rowConditioned>>

varsPower == <<exponent, power>>

varsStore == <<storage, loaded>>

varsDurations == <<durationMap, trailingRun>>

varsRegime == <<regimeRows, regimeOpts, learnedStates, learnedConfidence,
                combinedStates, smoothedStates, passesDone>>

varsClusters == <<clusterInput, profiles, clusterMap>>

varsLearner == <<varsDurations, varsRegime, varsClusters>>

varsSecond == <<varsApp, varsSelector, varsConditioning, varsPower, varsStore>>

varsRest == <<varsApp, varsSelector, varsConditioning, varsPower, varsStore, varsLearner>>

varsEngine == <<varsBuild, varsSemi, varsBlend, varsForecast, varsOrder2, varsFetch, varsKMeans>>

vars == <<pc, states, varsBuild, varsSemi, varsBlend, varsForecast, varsOrder2, varsFetch,
          varsKMeans, varsRest>>

IdleBuild == options = <<>> /\ build = <<>> /\ legacy = <<>>

IdleSemi == rowBase = <<>> /\ semiOpts = <<>> /\ adjusted = <<>>

IdleBlend == components = <<>> /\ blendWeights = <<>> /\ rowBlended = <<>>

IdleForecast ==
    /\ transition = <<>> /\ currentState = "" /\ steps = <<>>
    /\ firstRowAdj = <<>> /\ forecasts = <<>>

IdleOrder2 == table = <<>> /\ pair = <<>> /\ minCount = 0 /\ rowOrder2 = <<>>

IdleFetch ==
    /\ props = <<>> /\ data = 0 /\ error = 0 /\ loading = FALSE /\ tick = 0 /\ requests = <<>>

IdleKMeans == kmData = <<>> /\ kmK = 0 /\ km = <<>> /\ kmFirst = <<>>

IdleApp == candleRows = 0 /\ cfg = 0 /\ calc = <<>> /\ lastCompute = ""

IdleSelector == autoCfg = <<>> /\ scores = <<>> /\ bestHalfLife = 0

IdleConditioning == features = <<>> /\ logitModel = <<>> /\ rowConditioned = <<>>

IdlePower == exponent = 0 /\ power = <<>>

IdleStore == storage = <<>> /\ loaded = <<>>

IdleEngine ==
    IdleBuild /\ IdleSemi /\ IdleBlend /\ IdleForecast /\ IdleOrder2 /\ IdleFetch /\ IdleKMeans

IdleDurations == durationMap = <<>> /\ trailingRun = 0

IdleRegime ==
    /\ regimeRows = <<>> /\ regimeOpts = <<>> /\ combinedStates = <<>>
    /\ smoothedStates = <<>> /\ passesDone = 0
    /\ learnedStates = <<>> /\ learnedConfidence = <<>>

IdleClusters == clusterInput = <<>> /\ profiles = <<>> /\ clusterMap = <<>>

IdleLearner == IdleDurations /\ IdleRegime /\ IdleClusters

IdleSecond == IdleApp /\ IdleSelector /\ IdleConditioning /\ IdlePower /\ IdleStore

IdleRest == IdleSecond /\ IdleLearner

----------------------------------------------------------------------------
(* Bounds *)

MaxLen == 4          \* longest history enumerated for the Markov builder

MaxHist == 5         \* longest history enumerated for the duration models

MaxRows == 3         \* most rows handed to blendRows at once

MaxSteps == 3        \* largest step count of a forecast horizon

MaxCycleLen == 15    \* longest periodic history handed to the order-2 model

MaxFetches == 4      \* most fetches started in one behaviour of the data hook

----------------------------------------------------------------------------
(* types/market.ts *)

STATES == <<"D", "R", "B", "U">>

STATE_COUNT == Len(STATES)

StateKeys == {STATES[i] : i \in 1..STATE_COUNT}

Idx == 0..(STATE_COUNT - 1)

IDX == [s \in StateKeys |-> (CHOOSE i \in 1..STATE_COUNT : STATES[i] = s) - 1]

----------------------------------------------------------------------------
(* JavaScript number arithmetic on exact rationals *)

Abs(x) == IF x < 0 THEN -x ELSE x

RECURSIVE GCD(_, _)
GCD(a, b) == IF b = 0 THEN a ELSE GCD(b, a % b)

NaN == <<0, 0>>

Rat(n, d) ==
    IF d = 0 THEN (IF n = 0 THEN NaN ELSE IF n > 0 THEN <<1, 0>> ELSE <<-1, 0>>)
    ELSE LET g == GCD(Abs(n), Abs(d))
             s == IF d < 0 THEN -1 ELSE 1
         IN  <<(s * n) \div g, (s * d) \div g>>

Zero == <<0, 1>>
One == <<1, 1>>

IsFinite(x) == x[2] # 0

RAdd(x, y) == IF IsFinite(x) /\ IsFinite(y)
              THEN Rat(x[1] * y[2] + y[1] * x[2], x[2] * y[2])
              ELSE IF x = NaN \/ y = NaN THEN NaN
              ELSE IF ~IsFinite(x) /\ ~IsFinite(y) /\ x # y THEN NaN
              ELSE IF ~IsFinite(x) THEN x ELSE y

RNeg(x) == <<-x[1], x[2]>>

RSub(x, y) == RAdd(x, RNeg(y))

RMul(x, y) == IF IsFinite(x) /\ IsFinite(y)
              THEN Rat(x[1] * y[1], x[2] * y[2])
              ELSE IF x = NaN \/ y = NaN \/ x = Zero \/ y = Zero THEN NaN
              ELSE Rat(x[1] * y[1], 0)

RDiv(x, y) == IF IsFinite(x) /\ IsFinite(y)
              THEN Rat(x[1] * y[2], x[2] * y[1])
              ELSE IF x = NaN \/ y = NaN THEN NaN
              ELSE IF ~IsFinite(x) /\ ~IsFinite(y) THEN NaN
              ELSE IF ~IsFinite(x) THEN Rat(x[1] * (IF y[1] < 0 THEN -1 ELSE 1), 0)
              ELSE Zero

\* x < y and x <= y; every comparison with NaN is false, as in IEEE 754
RLt(x, y) == /\ x # NaN /\ y # NaN
             /\ IF IsFinite(x) /\ IsFinite(y) THEN x[1] * y[2] < y[1] * x[2]
                ELSE IF IsFinite(x) THEN y[1] > 0
                ELSE IF IsFinite(y) THEN x[1] < 0
                ELSE x[1] < y[1]

RLe(x, y) == x # NaN /\ y # NaN /\ (x = y \/ RLt(x, y))

\* Math.max / Math.min of two numbers
RMax(x, y) == IF x = NaN \/ y = NaN THEN NaN ELSE IF RLt(x, y) THEN y ELSE x
RMin(x, y) == IF x = NaN \/ y = NaN THEN NaN ELSE IF RLt(y, x) THEN y ELSE x

\* truthiness of a number: 0 and NaN are falsy
Truthy(x) == x # Zero /\ x # NaN

\* row.reduce((acc, value) => acc + value, 0) over a 0-based row
RECURSIVE SumTo(_, _)
SumTo(row, n) == IF n < 0 THEN Zero ELSE RAdd(SumTo(row, n - 1), row[n])

RowSum(row) == SumTo(row, STATE_COUNT - 1)

RECURSIVE Pow2(_)
Pow2(n) == IF n <= 0 THEN 1 ELSE 2 * Pow2(n - 1)

\* Array.prototype.slice(from, to) on a 1-based sequence holding a 0-based array
Slice(arr, from, to) ==
    LET n  == Len(arr)
        f0 == IF from < 0 THEN (IF n + from < 0 THEN 0 ELSE n + from) ELSE (IF from > n THEN n ELSE from)
        t0 == IF to < 0 THEN (IF n + to < 0 THEN 0 ELSE n + to) ELSE (IF to > n THEN n ELSE to)
    IN  IF t0 <= f0 THEN <<>> ELSE [i \in 1..(t0 - f0) |-> arr[f0 + i]]

\* Math.max(...arr) over the first n entries; Math.max() is -Infinity
RECURSIVE MaxOf(_, _)
MaxOf(arr, n) == IF n = 0 THEN <<-1, 0>> ELSE RMax(MaxOf(arr, n - 1), arr[n])

\* arr[j] of a 0-based array; out of range reads undefined
At(arr, j) == IF j >= 0 /\ j < Len(arr) THEN arr[j + 1] ELSE "undefined"

UniformRow == [j \in Idx |-> Rat(1, STATE_COUNT)]

ZeroMatrix == [i \in Idx |-> [j \in Idx |-> Zero]]

----------------------------------------------------------------------------
(* lib/markov.ts : decayWeights *)

\* Math.exp(-(Math.log(2) / halfLife) * offset) = 2^(-offset / halfLife); the
\* model carries the half-lives for which this is rational (halfLife = 1).
HalfLives == {0, 1}

decayWeights(length, halfLife) ==
    IF halfLife <= 0 THEN [i \in 1..length |-> One]
    ELSE LET weights == [i \in 1..length |-> Rat(1, Pow2((length - i) \div halfLife))]
             max     == MaxOf(weights, length)
         IN  [i \in 1..length |-> RDiv(weights[i], max)]

----------------------------------------------------------------------------
(* lib/markov.ts : buildMarkovWeighted (options variant) *)

Filtered_WholeHistory(sts, window) == sts

\* window && states.length > window ? states.slice(-window) : states.slice()
Filtered(sts, window) ==
    IF window # 0 /\ Len(sts) > window THEN Slice(sts, 0 - window, Len(sts)) ELSE sts

\* number of leading positions on which the context slice equals latestContext
RECURSIVE Matches(_, _, _, _)
Matches(contextSlice, latestContext, j, contextDepth) ==
    IF j >= contextDepth THEN 0
    ELSE IF At(contextSlice, j) = At(latestContext, j)
         THEN 1 + Matches(contextSlice, latestContext, j + 1, contextDepth)
         ELSE 0

ContextWeight(filtered, weights, contextDepth, latestContext, i) ==
    LET weight       == weights[i + 1]
        contextStart == i - contextDepth
    IN  IF contextDepth # 0 /\ contextStart >= 0
        THEN LET contextSlice == Slice(filtered, contextStart, contextStart + contextDepth)
                 matches      == Matches(contextSlice, latestContext, 0, contextDepth)
             IN  IF matches = contextDepth THEN RMul(weight, Rat(3 + contextDepth, 2))
                 ELSE IF matches > 0 THEN RMul(weight, Rat(2 * contextDepth + matches, 2 * contextDepth))
                 ELSE RMul(weight, One)
        ELSE weight

\* mutant: the transition is booked under counts[to][from]
RECURSIVE WeightedCounts_Transposed(_, _, _, _, _)
WeightedCounts_Transposed(filtered, weights, contextDepth, latestContext, n) ==
    IF n = 0 THEN ZeroMatrix
    ELSE LET prev == WeightedCounts_Transposed(filtered, weights, contextDepth, latestContext, n - 1)
             i    == n - 1
             from == IDX[filtered[i + 1]]
             to   == IDX[filtered[i + 2]]
             w    == ContextWeight(filtered, weights, contextDepth, latestContext, i)
         IN  [prev EXCEPT ![to][from] = RAdd(@, w)]

\* counts[from][to] after the first n transitions of the accumulation loop
RECURSIVE WeightedCounts(_, _, _, _, _)
WeightedCounts(filtered, weights, contextDepth, latestContext, n) ==
    IF n = 0 THEN ZeroMatrix
    ELSE LET prev == WeightedCounts(filtered, weights, contextDepth, latestContext, n - 1)
             i    == n - 1
             from == IDX[filtered[i + 1]]
             to   == IDX[filtered[i + 2]]
             w    == ContextWeight(filtered, weights, contextDepth, latestContext, i)
         IN  [prev EXCEPT ![from][to] = RAdd(@, w)]

\* stateFreq[idx]: occurrences of the state in the window
StateFreq(filtered, idx) == Cardinality({p \in 1..Len(filtered) : IDX[filtered[p]] = idx})

BaseDistribution(filtered) ==
    LET totalFreq == Len(filtered)
    IN  IF totalFreq # 0 THEN [j \in Idx |-> Rat(StateFreq(filtered, j), totalFreq)]
        ELSE UniformRow

\* mutant: the prior is added to the cells but left out of the normalizing sum
PriorRow_SumWithoutPrior(row, baseDistribution, dirichletStrength, smoothing) ==
    LET prior     == [j \in Idx |-> RAdd(RMul(baseDistribution[j], dirichletStrength), smoothing)]
        withPrior == [j \in Idx |-> RAdd(row[j], prior[j])]
        sum       == RowSum(row)
    IN  IF sum = Zero THEN UniformRow
        ELSE [j \in Idx |-> RDiv(withPrior[j], sum)]

PriorRow(row, baseDistribution, dirichletStrength, smoothing) ==
    LET prior     == [j \in Idx |-> RAdd(RMul(baseDistribution[j], dirichletStrength), smoothing)]
        withPrior == [j \in Idx |-> RAdd(row[j], prior[j])]
        sum       == RowSum(withPrior)
    IN  IF sum = Zero THEN UniformRow
        ELSE [j \in Idx |-> RDiv(withPrior[j], sum)]

buildMarkovWeighted(sts, opts) ==
    LET filtered == Filtered(sts, opts.window)
    IN  IF Len(filtered) < 2
        THEN [counts |-> ZeroMatrix,
              probs |-> [i \in Idx |-> UniformRow],
              weights |-> <<>>,
              contextDepth |-> IF opts.order - 1 > 0 THEN opts.order - 1 ELSE 0,
              baseDistribution |-> UniformRow]
        ELSE LET length           == Len(filtered) - 1
                 weights          == decayWeights(length, opts.halfLife)
                 orderDepth       == IF opts.order > 1 THEN opts.order ELSE 1
                 contextDepth     == orderDepth - 1
                 baseDistribution == BaseDistribution(filtered)
                 latestContext    == IF contextDepth # 0
                                     THEN Slice(filtered, Len(filtered) - 1 - contextDepth, Len(filtered) - 1)
                                     ELSE <<>>
                 counts           == WeightedCounts(filtered, weights, contextDepth, latestContext, length)
             IN  [counts |-> counts,
                  probs |-> [i \in Idx |-> PriorRow(counts[i], baseDistribution,
                                                     opts.dirichletStrength, opts.smoothing)],
                  weights |-> weights,
                  contextDepth |-> contextDepth,
                  baseDistribution |-> baseDistribution]

(* lib/markov.ts : buildMarkovWeighted (legacy variant) *)

RECURSIVE LegacyCounts(_, _, _)
LegacyCounts(filtered, weights, n) ==
    IF n = 0 THEN ZeroMatrix
    ELSE LET prev == LegacyCounts(filtered, weights, n - 1)
         IN  [prev EXCEPT ![IDX[filtered[n]]][IDX[filtered[n + 1]]] = RAdd(@, weights[n])]

buildMarkovWeightedLegacy(sts, window, smoothing, halfLife) ==
    LET filtered == Filtered(sts, window)
        length   == IF Len(filtered) = 0 THEN 0 ELSE Len(filtered) - 1
        weights  == decayWeights(length, halfLife)
        counts   == LegacyCounts(filtered, weights, length)
        smoothed == [i \in Idx |-> [j \in Idx |-> RAdd(counts[i][j], smoothing)]]
    IN  [counts |-> counts,
         probs |-> [i \in Idx |->
                      LET sum == RowSum(smoothed[i])
                      IN  [j \in Idx |-> IF Truthy(sum) THEN RDiv(smoothed[i][j], sum)
                                          ELSE Rat(1, STATE_COUNT)]]]

----------------------------------------------------------------------------------------------------------------------------------------
(* lib/markov.ts : semiMarkovAdjustFirstRow (hazard variant) and helpers *)

RECURSIVE ExtractRunsFrom(_, _, _, _, _)
ExtractRunsFrom(sts, state, i, streak, runs) ==
    IF i > Len(sts) THEN (IF streak > 0 THEN Append(runs, streak) ELSE runs)
    ELSE IF sts[i] = state THEN ExtractRunsFrom(sts, state, i + 1, streak + 1, runs)
    ELSE IF streak > 0 THEN ExtractRunsFrom(sts, state, i + 1, 0, Append(runs, streak))
    ELSE ExtractRunsFrom(sts, state, i + 1, 0, runs)

extractRuns(sts, state) == ExtractRunsFrom(sts, state, 1, 0, <<>>)

\* the backwards loop counting the run of cur that ends the history
RECURSIVE RunBack(_, _, _)
RunBack(sts, cur, i) ==
    IF i >= 1 /\ sts[i] = cur THEN 1 + RunBack(sts, cur, i - 1) ELSE 0

computeRunLength(sts) ==
    IF Len(sts) = 0 THEN 0 ELSE 1 + RunBack(sts, sts[Len(sts)], Len(sts) - 1)

\* runs.filter((length) => length >= n).length, === n, > n
CountAtLeast(runs, n) == Cardinality({p \in 1..Len(runs) : runs[p] >= n})

CountEqual(runs, n) == Cardinality({p \in 1..Len(runs) : runs[p] = n})

CountGreater(runs, n) == Cardinality({p \in 1..Len(runs) : runs[p] > n})

\* sum of the entries of row other than index skip
OtherSum(row, skip) == RowSum([j \in Idx |-> IF j = skip THEN Zero ELSE row[j]])

Clamp01(x) == RMax(Zero, RMin(One, x))

\* mutant: the stay entry is replaced and the other entries are left as they were
RescaleOthers_NotRescaled(row, curIdx, stay) ==
    [i \in Idx |-> IF i = curIdx THEN stay ELSE row[i]]

\* the other entries share the remainder 1 - stay in proportion
RescaleOthers(row, curIdx, stay) ==
    LET remainder == RSub(One, stay)
        otherSum  == OtherSum(row, curIdx)
    IN  [i \in Idx |->
           IF i = curIdx THEN stay
           ELSE IF Truthy(otherSum) THEN RMul(RDiv(row[i], otherSum), remainder)
           ELSE RDiv(remainder, Rat(STATE_COUNT - 1, 1))]

\* mutant: the runs that outlast the current run are counted as the exits
hazardOf_CountsLongerRuns(runs, currentRun) ==
    LET survivors == CountAtLeast(runs, currentRun)
        exits     == CountGreater(runs, currentRun)
    IN  IF survivors # 0 THEN Rat(exits, survivors) ELSE Zero

\* survivors, exits and hazard of the current run
hazardOf(runs, currentRun) ==
    LET survivors == CountAtLeast(runs, currentRun)
        exits     == CountEqual(runs, currentRun)
    IN  IF survivors # 0 THEN Rat(exits, survivors) ELSE Zero

semiMarkovAdjustFirstRow(row, sts, opts) ==
    IF Len(sts) = 0 THEN row
    ELSE LET cur    == sts[Len(sts)]
             curIdx == IDX[cur]
             runs   == extractRuns(sts, cur)
         IN  IF Len(runs) < opts.minSamples THEN row
             ELSE LET currentRun   == 1 + RunBack(sts, cur, Len(sts) - 1)
                      hazard       == hazardOf(runs, currentRun)
                      continueProb == Clamp01(RSub(One, hazard))
                      targetStay   == IF currentRun > 1 THEN RMax(Rat(1, 20), continueProb)
                                      ELSE continueProb
                      smoothing    == opts.smoothing
                      stay         == Clamp01(RAdd(RMul(row[curIdx], RSub(One, smoothing)),
                                                   RMul(targetStay, smoothing)))
                  IN  RescaleOthers(row, curIdx, stay)

(* unnamed/part_006 : the duration variant and its legacy fallback *)

normalizeRow(row) ==
    LET sum == RowSum(row)
    IN  IF RLe(sum, Zero) THEN UniformRow
        ELSE [j \in Idx |-> RDiv(row[j], sum)]

RECURSIVE DurationsFrom(_, _, _, _, _)
DurationsFrom(sts, i, current, length, out) ==
    IF i > Len(sts) THEN [out EXCEPT ![current] = Append(@, length)]
    ELSE IF sts[i] = current THEN DurationsFrom(sts, i + 1, current, length + 1, out)
    ELSE DurationsFrom(sts, i + 1, sts[i], 1, [out EXCEPT ![current] = Append(@, length)])

estimateDurations_NoTrailingRun(sts) ==
    IF Len(sts) = 0 THEN [k \in StateKeys |-> <<>>]
    ELSE LET out == DurationsFrom(SubSeq(sts, 1, Len(sts) - computeRunLength(sts)),
                                  2, sts[1], 1, [k \in StateKeys |-> <<>>])
             closed == IF computeRunLength(sts) = Len(sts) THEN [k \in StateKeys |-> <<>>] ELSE out
         IN  [k \in StateKeys |-> IF Len(closed[k]) = 0 THEN <<1>> ELSE closed[k]]

estimateDurations(sts) ==
    IF Len(sts) = 0 THEN [k \in StateKeys |-> <<>>]
    ELSE LET out == DurationsFrom(sts, 2, sts[1], 1, [k \in StateKeys |-> <<>>])
         IN  [k \in StateKeys |-> IF Len(out[k]) = 0 THEN <<1>> ELSE out[k]]

survivalProb(samples, runLength) ==
    IF Len(samples) = 0 THEN Rat(1, 2)
    ELSE LET greater == CountGreater(samples, runLength)
         IN  Rat(greater + 1, Len(samples) + 2)

\* [...runs].sort((a, b) => a - b)
RECURSIVE InsertSorted(_, _)
InsertSorted(sorted, x) ==
    IF Len(sorted) = 0 THEN <<x>>
    ELSE IF x < Head(sorted) THEN <<x>> \o sorted
    ELSE <<Head(sorted)>> \o InsertSorted(Tail(sorted), x)

RECURSIVE SortRuns(_)
SortRuns(runs) == IF Len(runs) = 0 THEN <<>> ELSE InsertSorted(SortRuns(Tail(runs)), Head(runs))

\* the median-run heuristic shared by the first revision of markov.ts and the
\* fallback of part_006 (which normalizes what it returns)
legacyAdjust(row, sts) ==
    LET cur  == sts[Len(sts)]
        run  == 1 + RunBack(sts, cur, Len(sts) - 1)
        runs == extractRuns(sts, cur)
    IN  IF Len(runs) = 0 THEN row
        ELSE LET sorted == SortRuns(runs)
                 median == sorted[(Len(sorted) \div 2) + 1]
             IN  IF run < median
                 THEN LET boost     == RMin(Rat(15, 100), RMul(Rat(3, 100), Rat(median - run, 1)))
                          curIndex  == IDX[cur]
                          stay      == RMin(One, RAdd(row[curIndex], boost))
                          remainder == RSub(One, stay)
                          restSum   == OtherSum(row, curIndex)
                      IN  [i \in Idx |->
                             IF i = curIndex THEN stay
                             ELSE IF Truthy(restSum) THEN RDiv(RMul(row[i], remainder), restSum)
                             ELSE RDiv(remainder, Rat(STATE_COUNT - 1, 1))]
                 ELSE row

semiMarkovAdjustFirstRowLegacy(row, sts) ==
    IF Len(sts) = 0 THEN row ELSE legacyAdjust(row, sts)

\* NoDurations stands for an absent opts.durations
NoDurations == [k \in StateKeys |-> <<0>>]

semiMarkovAdjustFirstRowDuration(row, sts, durations, runLength) ==
    IF Len(sts) = 0 THEN row
    ELSE LET cur == sts[Len(sts)]
         IN  IF durations # NoDurations
             THEN LET stayIdx     == IDX[cur]
                      stayBase    == row[stayIdx]
                      survival    == survivalProb(durations[cur], runLength)
                      boostedStay == RMin(Rat(995, 1000),
                                          RMax(Rat(5, 1000), RMul(survival, RMax(Rat(5, 100), stayBase))))
                      exitsSum    == OtherSum(row, stayIdx)
                      scaled      == [idx \in Idx |->
                                        IF idx = stayIdx THEN boostedStay
                                        ELSE IF RLe(exitsSum, Zero)
                                             THEN RDiv(RSub(One, boostedStay), Rat(STATE_COUNT - 1, 1))
                                             ELSE RMul(row[idx], RDiv(RSub(One, boostedStay), exitsSum))]
                  IN  normalizeRow(scaled)
             ELSE normalizeRow(legacyAdjust(row, sts))

----------------------------------------------------------------------------
(* lib/models/conditioning.ts : blendRows *)

Eps9 == Rat(1, 1000000000)

\* Math.max(1e-9, x), compared without leaving the 32-bit range
MaxEps9(x) ==
    IF x[1] >= 3 \/ (x[1] > 0 /\ x[1] * Eps9[2] >= x[2]) THEN x ELSE Eps9

RECURSIVE SeqSum(_, _)
SeqSum(seq, n) == IF n = 0 THEN Zero ELSE RAdd(SeqSum(seq, n - 1), seq[n])

\* out[j] after rows.forEach: sum over idx of (normalized[idx] ?? 0) * row[j]
RECURSIVE BlendCell(_, _, _, _)
BlendCell(rows, normalized, j, n) ==
    IF n = 0 THEN Zero
    ELSE LET w == IF n <= Len(normalized) THEN normalized[n] ELSE Zero
         IN  RAdd(BlendCell(rows, normalized, j, n - 1), RMul(w, rows[n][j]))

\* mutant: the raw weights are applied and the result is returned as it is
blendRows_Unnormalized(rows, weights) ==
    [j \in Idx |-> BlendCell(rows, weights, j, Len(rows))]

blendRows(rows, weights) ==
    LET total      == MaxEps9(SeqSum(weights, Len(weights)))
        normalized == [i \in 1..Len(weights) |-> RDiv(weights[i], total)]
        out        == [j \in Idx |-> BlendCell(rows, normalized, j, Len(rows))]
        sum        == RowSum(out)
    IN  IF RLt(Zero, sum) THEN [j \in Idx |-> RDiv(out[j], sum)]
        ELSE UniformRow

----------------------------------------------------------------------------
(* lib/models/conditioning.ts : defaultLogitModel, conditionedRow *)

FEATURE_DIM == 10

defaultLogitModel ==
    [W |-> [j \in 1..STATE_COUNT |-> [f \in 1..FEATURE_DIM |-> Zero]],
     b |-> [j \in 1..STATE_COUNT |-> Zero],
     temperature |-> Rat(12, 10)]

\* features.reduce((acc, value, f) => acc + value * (weights[f] ?? 0), 0)
RECURSIVE DotFeatures(_, _, _)
DotFeatures(feat, weights, n) ==
    IF n = 0 THEN Zero
    ELSE RAdd(DotFeatures(feat, weights, n - 1),
              RMul(feat[n], IF n <= Len(weights) THEN weights[n] ELSE Zero))

\* logits[j] for the 0-based state index j
Logit(feat, model, j) ==
    LET weights == IF j + 1 <= Len(model.W) THEN model.W[j + 1] ELSE <<>>
        bias    == IF j + 1 <= Len(model.b) THEN model.b[j + 1] ELSE Zero
    IN  RAdd(bias, DotFeatures(feat, weights, Len(feat)))

\* Math.max(...scaled) over the indices 0..n
RECURSIVE MaxLogit(_, _)
MaxLogit(scaled, n) == IF n < 0 THEN <<-1, 0>> ELSE RMax(MaxLogit(scaled, n - 1), scaled[n])

\* Math.exp(x) where the result is rational; an irrational result is kept as
\* the term <<"exp", n, d>> for x = n / d
Exp(x) ==
    IF x = Zero THEN One
    ELSE IF x = NaN THEN NaN
    ELSE IF x = <<-1, 0>> THEN Zero
    ELSE IF x = <<1, 0>> THEN <<1, 0>>
    ELSE <<"exp", x[1], x[2]>>

\* numbers are pairs, terms are triples
IsTerm(v) == Len(v) = 3

\* exps.map((value) => value / Z) with Z the sum of exps; when an exponential
\* is irrational, entry j is kept as the term exp(shifted[j]) / sum_k exp(shifted[k])
Softmax(shifted) ==
    LET exps == [j \in Idx |-> Exp(shifted[j])]
    IN  IF \E j \in Idx : IsTerm(exps[j])
        THEN [j \in Idx |-> <<"exp", shifted[j], shifted>>]
        ELSE LET Z == RowSum(exps) IN [j \in Idx |-> RDiv(exps[j], Z)]

\* mutant: the exponentials are returned without the division by Z
conditionedRow_Unnormalized(feat, model) ==
    LET logits      == [j \in Idx |-> Logit(feat, model, j)]
        temperature == RMax(Rat(1, 1000000), model.temperature)
        scaled      == [j \in Idx |-> RDiv(logits[j], temperature)]
        maxLogit    == MaxLogit(scaled, STATE_COUNT - 1)
    IN  [j \in Idx |-> Exp(RSub(scaled[j], maxLogit))]

conditionedRow(feat, model) ==
    LET logits      == [j \in Idx |-> Logit(feat, model, j)]
        temperature == RMax(Rat(1, 1000000), model.temperature)
        scaled      == [j \in Idx |-> RDiv(logits[j], temperature)]
        maxLogit    == MaxLogit(scaled, STATE_COUNT - 1)
    IN  Softmax([j \in Idx |-> RSub(scaled[j], maxLogit)])

----------------------------------------------------------------------------
(* lib/compute.ts : computeAll, the half-life candidates and their selection *)

MinHalfLife == 10

\* Math.round: the nearest integer, halves rounded up
Round(x) == IF IsFinite(x) THEN Rat((2 * x[1] + x[2]) \div (2 * x[2]), 1) ELSE x

\* Array.from(new Set(values)): the first occurrence of every value, in order
RECURSIVE Dedupe(_)
Dedupe(values) ==
    IF values = <<>> THEN <<>>
    ELSE LET n    == Len(values)
             init == Dedupe(SubSeq(values, 1, n - 1))
         IN  IF \E i \in 1..(n - 1) : values[i] = values[n] THEN init
             ELSE Append(init, values[n])

halfLifeCandidates(config) ==
    IF config.autoHalfLife
    THEN LET raw     == <<RMul(config.halfLife, Rat(1, 2)), config.halfLife,
                          RMul(config.halfLife, Rat(3, 2)), RMul(config.halfLife, Rat(2, 1))>>
             floored == [i \in 1..4 |-> RMax(Rat(MinHalfLife, 1), Round(raw[i]))]
         IN  Dedupe(SelectSeq(floored, IsFinite))
    ELSE <<config.halfLife>>

\* the forEach over the candidates: the first candidate is taken, a later one
\* only when its log-likelihood is finite and greater than the best so far.
\* Returns the index of the chosen candidate after the first n, 0 for none.
RECURSIVE BestIndex(_, _)
BestIndex(logLikelihoods, n) ==
    IF n = 0 THEN 0
    ELSE LET best == BestIndex(logLikelihoods, n - 1)
         IN  IF best = 0 THEN n
             ELSE IF IsFinite(logLikelihoods[n]) /\ RLt(logLikelihoods[best], logLikelihoods[n])
                  THEN n
                  ELSE best

\* bestHalfLife after the loop; cfg.halfLife when there was no candidate
selectHalfLife(config, logLikelihoods) ==
    LET candidates == halfLifeCandidates(config)
        best       == BestIndex(logLikelihoods, Len(candidates))
    IN  IF best = 0 THEN config.halfLife ELSE candidates[best]

----------------------------------------------------------------------------
(* lib/regimeModel.ts : smoothStates *)

\* current[i - 1] === current[i + 1] && current[i] !== current[i - 1], for 1-based i
IsFlip(current, i) ==
    /\ i > 1 /\ i < Len(current)
    /\ current[i - 1] = current[i + 1]
    /\ current[i] # current[i - 1]

smoothPass_InPlace(current) ==
    LET RECURSIVE Upto(_)
        Upto(n) == IF n = 0 THEN current
                   ELSE LET done == Upto(n - 1)
                        IN  IF IsFlip(done, n) THEN [done EXCEPT ![n] = done[n - 1]] ELSE done
    IN  Upto(Len(current))

\* one pass: next is a copy of current in which every flip of current is overwritten
smoothPass(current) ==
    [i \in 1..Len(current) |-> IF IsFlip(current, i) THEN current[i - 1] ELSE current[i]]

RECURSIVE smoothStates(_, _)
smoothStates(sts, passes) ==
    IF passes <= 0 THEN sts ELSE smoothPass(smoothStates(sts, passes - 1))

----------------------------------------------------------------------------
(* lib/regimeModel.ts : inferRegimeStates *)

\* null in a (StateKey | null)[] array, undefined for a missing htfState
NullState == "null"
NoHtf == "undefined"

\* the three returns of the ambiguous band
demote_IgnoresHtf(rule, learned, conf, htf, gate) ==
    IF RLe(gate, conf) THEN learned ELSE rule

demote(rule, learned, conf, htf, gate) ==
    IF htf = "U" /\ learned = "D" THEN (IF RLt(gate, conf) THEN "R" ELSE rule)
    ELSE IF htf = "D" /\ learned = "U" THEN (IF RLt(gate, conf) THEN "B" ELSE rule)
    ELSE IF RLe(gate, conf) THEN learned ELSE rule

reconcile_HighConfidenceStrict(rule, learned, conf, htf, gate) ==
    IF learned = NullState THEN rule
    ELSE IF learned = rule THEN learned
    ELSE IF RLt(RAdd(gate, Rat(2, 10)), conf) THEN learned
    ELSE IF RLe(conf, RMul(gate, Rat(1, 2))) THEN rule
    ELSE demote(rule, learned, conf, htf, gate)

\* the callback of rows.map that yields combinedStates
reconcile(rule, learned, conf, htf, gate) ==
    IF learned = NullState THEN rule
    ELSE IF learned = rule THEN learned
    ELSE IF RLe(RAdd(gate, Rat(2, 10)), conf) THEN learned
    ELSE IF RLe(conf, RMul(gate, Rat(1, 2))) THEN rule
    ELSE demote(rule, learned, conf, htf, gate)

\* buildFeatureRows: the indices of the rows whose feature vector is all finite
FeatureIndices(rows) == {i \in 1..Len(rows) : rows[i].finite}

learnedOf_UnclusteredAsUp(rows) ==
    [i \in 1..Len(rows) |-> IF i \in FeatureIndices(rows) THEN rows[i].learned ELSE "U"]

\* learnedStates after the loop over assignments: set for rows with features only
learnedOf(rows) ==
    [i \in 1..Len(rows) |-> IF i \in FeatureIndices(rows) THEN rows[i].learned ELSE NullState]

confidenceOf(rows) ==
    [i \in 1..Len(rows) |-> IF i \in FeatureIndices(rows) THEN rows[i].conf ELSE Zero]

combinedOf(rows, gate) ==
    [i \in 1..Len(rows) |->
        reconcile(rows[i].rule, learnedOf(rows)[i], confidenceOf(rows)[i], rows[i].htfState, gate)]

----------------------------------------------------------------------------
(* lib/regimeModel.ts : computeClusterProfiles, assignStatesFromClusters *)

\* the features whose means enter trendScore and reversalScore
ScoreKeys == {"ret1", "ret4", "emaFast", "emaSlow"}

\* stat.count after the loop over assignments
CountOf(assignments, cluster) ==
    Cardinality({i \in 1..Len(assignments) : assignments[i] = cluster})

\* stat.sums[d] after the first n assignments
RECURSIVE SumsOf(_, _, _, _, _)
SumsOf(featureRows, assignments, cluster, key, n) ==
    IF n = 0 THEN Zero
    ELSE IF assignments[n] = cluster
         THEN RAdd(SumsOf(featureRows, assignments, cluster, key, n - 1), featureRows[n][key])
         ELSE SumsOf(featureRows, assignments, cluster, key, n - 1)

\* Math.max(...assignments)
RECURSIVE MaxAssignment(_, _)
MaxAssignment(assignments, n) ==
    IF n = 1 THEN assignments[1]
    ELSE LET m == MaxAssignment(assignments, n - 1)
         IN  IF assignments[n] > m THEN assignments[n] ELSE m

\* the list of profiles, one per cluster index 0 .. max(assignments)
computeClusterProfiles(featureRows, assignments) ==
    [c \in 1..(MaxAssignment(assignments, Len(assignments)) + 1) |->
        LET count == CountOf(assignments, c - 1)
            means == [key \in ScoreKeys |->
                         IF count # 0
                         THEN RDiv(SumsOf(featureRows, assignments, c - 1, key, Len(assignments)),
                                   Rat(count, 1))
                         ELSE Zero]
        IN  [idx           |-> c - 1,
             count         |-> count,
             means         |-> means,
             trendScore    |-> RAdd(RAdd(RAdd(means.ret4, RMul(Rat(1, 2), means.ret1)),
                                         means.emaFast),
                                    RMul(Rat(1, 2), means.emaSlow)),
             reversalScore |-> RAdd(RSub(means.emaFast, means.emaSlow), means.ret4)]]

\* Array.prototype.sort is stable: an element goes behind the ones it does not precede
InsertByTrend(sorted, p) ==
    LET before == {i \in 1..Len(sorted) : ~RLt(p.trendScore, sorted[i].trendScore)}
        at     == Cardinality(before)
    IN  SubSeq(sorted, 1, at) \o <<p>> \o SubSeq(sorted, at + 1, Len(sorted))

\* [...profiles].sort((a, b) => a.trendScore - b.trendScore)
RECURSIVE SortByTrend(_)
SortByTrend(list) ==
    IF list = <<>> THEN <<>>
    ELSE InsertByTrend(SortByTrend(SubSeq(list, 1, Len(list) - 1)), list[Len(list)])

InsertByReversal(sorted, p) ==
    LET before == {i \in 1..Len(sorted) : ~RLt(sorted[i].reversalScore, p.reversalScore)}
        at     == Cardinality(before)
    IN  SubSeq(sorted, 1, at) \o <<p>> \o SubSeq(sorted, at + 1, Len(sorted))

\* remaining.sort((a, b) => b.reversalScore - a.reversalScore)
RECURSIVE SortByReversal(_)
SortByReversal(list) ==
    IF list = <<>> THEN <<>>
    ELSE InsertByReversal(SortByReversal(SubSeq(list, 1, Len(list) - 1)), list[Len(list)])

\* profiles.filter((profile) => !assignments[profile.idx])
Unassigned(list, assigned) == SelectSeq(list, LAMBDA p : p.idx \notin DOMAIN assigned)

assignStatesFromClusters_DownLast(clusterProfiles) ==
    IF clusterProfiles = <<>> THEN <<>>
    ELSE LET sortedByTrend == SortByTrend(clusterProfiles)
             downCluster   == sortedByTrend[1]
             upCluster     == sortedByTrend[Len(sortedByTrend)]
             trended       == (downCluster.idx :> "D") @@ (upCluster.idx :> "U")
             remaining     == SortByReversal(Unassigned(clusterProfiles, trended))
             withReversal  == IF remaining # <<>>
                              THEN (remaining[1].idx :> "R") @@ trended
                              ELSE trended
             rest          == Unassigned(clusterProfiles, withReversal)
         IN  [c \in {rest[i].idx : i \in 1..Len(rest)} |-> "B"] @@ withReversal

\* the record cluster index -> state; a later assignment to a key replaces the earlier
assignStatesFromClusters(clusterProfiles) ==
    IF clusterProfiles = <<>> THEN <<>>
    ELSE LET sortedByTrend == SortByTrend(clusterProfiles)
             downCluster   == sortedByTrend[1]
             upCluster     == sortedByTrend[Len(sortedByTrend)]
             trended       == (upCluster.idx :> "U") @@ (downCluster.idx :> "D")
             remaining     == SortByReversal(Unassigned(clusterProfiles, trended))
             withReversal  == IF remaining # <<>>
                              THEN (remaining[1].idx :> "R") @@ trended
                              ELSE trended
             rest          == Unassigned(clusterProfiles, withReversal)
         IN  [c \in {rest[i].idx : i \in 1..Len(rest)} |-> "B"] @@ withReversal

----------------------------------------------------------------------------
(* unnamed/part_008 : saveLogitModel, loadLogitModel, isValidLogitModel, clearLogitModel *)

\* JavaScript values as tagged pairs: number, null, undefined, array, object.
\* A localStorage item is absent, a text that does not parse, or a text that
\* parses to the JSON value it carries.
JsNull == <<"null", 0>>

JsUndefined == <<"undefined", 0>>

JsNumber(r) == <<"number", r>>

JsArray(seq) == <<"array", seq>>

JsObject(fields) == <<"object", fields>>

NoItem == <<"absent", 0>>

\* the LogitModel object in memory
JsModel(model) ==
    JsObject([k \in DOMAIN model |->
                 IF k = "temperature" THEN JsNumber(model[k])
                 ELSE IF k = "W"
                      THEN JsArray([j \in 1..Len(model[k]) |->
                                      JsArray([f \in 1..Len(model[k][j]) |-> JsNumber(model[k][j][f])])])
                      ELSE JsArray([f \in 1..Len(model[k]) |-> JsNumber(model[k][f])])])

\* the value JSON.stringify writes: NaN and the infinities become null
RECURSIVE Jsonify(_)
Jsonify(value) ==
    IF value[1] = "number" THEN (IF IsFinite(value[2]) THEN value ELSE JsNull)
    ELSE IF value[1] = "array"
         THEN JsArray([i \in 1..Len(value[2]) |-> Jsonify(value[2][i])])
    ELSE IF value[1] = "object"
         THEN JsObject([k \in DOMAIN value[2] |-> Jsonify(value[2][k])])
    ELSE value

\* window.localStorage.setItem(STORAGE_KEY, JSON.stringify(model))
saveLogitModel(model) == <<"json", Jsonify(JsModel(model))>>

IsArray(value) == value[1] = "array"

\* Number.isFinite(x)
IsFiniteNumber(value) == value[1] = "number" /\ IsFinite(value[2])

\* value.name of an object; undefined for a property it lacks and for an array
Property(value, name) ==
    IF value[1] = "object" /\ name \in DOMAIN value[2] THEN value[2][name] ELSE JsUndefined

\* arr.every(Number.isFinite)
EveryFinite(arr) == \A i \in 1..Len(arr[2]) : IsFiniteNumber(arr[2][i])

isValidLogitModel(value) ==
    /\ value[1] \in {"object", "array"}
    /\ LET W           == Property(value, "W")
           b           == Property(value, "b")
           temperature == Property(value, "temperature")
           mean        == Property(value, "mean")
           std         == Property(value, "std")
       IN  /\ IsArray(W) /\ IsArray(b) /\ IsArray(mean) /\ IsArray(std)
           /\ IsFiniteNumber(temperature)
           /\ \A j \in 1..Len(W[2]) : IsArray(W[2][j]) /\ EveryFinite(W[2][j])
           /\ EveryFinite(b)
           /\ EveryFinite(mean)
           /\ EveryFinite(std)

\* the item is null or "" (falsy), or JSON.parse throws, or the value is invalid: null
loadLogitModel(item) ==
    IF item[1] # "json" THEN JsNull
    ELSE IF ~isValidLogitModel(item[2]) THEN JsNull
    ELSE item[2]

\* window.localStorage.removeItem(STORAGE_KEY)
clearLogitModel == NoItem

----------------------------------------------------------------------------
(* lib/markov.ts : matMul, matPow, vecMul, multiStepForecast *)

RECURSIVE DotTo(_, _, _, _, _)
\* sum over m = 0..n of A[r][m] * B[m][c]
DotTo(A, B, r, c, n) ==
    IF n < 0 THEN Zero ELSE RAdd(DotTo(A, B, r, c, n - 1), RMul(A[r][n], B[n][c]))

\* a freshly allocated array: its cells are computed once, when it is built
NewArray(f) ==
    LET cells == [i \in 1..STATE_COUNT |-> f[i - 1]] \o <<>>
    IN  [j \in Idx |-> cells[j + 1]]

matMul(A, B) ==
    NewArray([r \in Idx |-> NewArray([c \in Idx |-> DotTo(A, B, r, c, STATE_COUNT - 1)])])

Identity == [i \in Idx |-> [j \in Idx |-> IF i = j THEN One ELSE Zero]]

\* mutant: the loop runs once more (i <= k)
RECURSIVE matPow_OneMoreRound(_, _)
matPow_OneMoreRound(matrix, k) ==
    IF k < 0 THEN Identity ELSE matMul(matPow_OneMoreRound(matrix, k - 1), matrix)

RECURSIVE matPow(_, _)
matPow(matrix, k) == IF k <= 0 THEN Identity ELSE matMul(matPow(matrix, k - 1), matrix)

RECURSIVE VecDotTo(_, _, _, _)
\* sum over k = 0..n of vector[k] * matrix[k][j]
VecDotTo(vector, matrix, j, n) ==
    IF n < 0 THEN Zero ELSE RAdd(VecDotTo(vector, matrix, j, n - 1), RMul(vector[n], matrix[n][j]))

\* mutant: the matrix is indexed [j][k], multiplying by the transpose
vecMul_Transposed(vector, matrix) ==
    [j \in Idx |-> SumTo([k \in Idx |-> RMul(vector[k], matrix[j][k])], STATE_COUNT - 1)]

vecMul(vector, matrix) ==
    NewArray([j \in Idx |-> VecDotTo(vector, matrix, j, STATE_COUNT - 1)])

\* an absent optional argument
Undefined == <<>>

\* mutant: the adjusted matrix drives every step
ForecastWithAdj_EveryStep(matrix, v0, curIdx, adj, k) ==
    vecMul(v0, matPow([matrix EXCEPT ![curIdx] = adj], k))

\* lines 372-378: the adjusted row once, then the pure matrix k - 1 times
ForecastWithAdj(matrix, v0, curIdx, adj, k) ==
    LET withAdj == [matrix EXCEPT ![curIdx] = adj]
        vec     == vecMul(v0, matPow(withAdj, 1))
    IN  IF k > 1 THEN vecMul(vec, matPow(matrix, k - 1)) ELSE vec

\* mutant: only a negative step count returns the one-hot vector
ForecastFor_NegativeOnly(matrix, v0, curIdx, adj, k) ==
    IF k < 0 THEN v0
    ELSE IF adj # Undefined THEN ForecastWithAdj(matrix, v0, curIdx, adj, k)
    ELSE vecMul(v0, matPow(matrix, k))

\* lines 365-382: the body of the loop over Object.entries(steps)
ForecastFor(matrix, v0, curIdx, adj, k) ==
    IF k <= 0 THEN v0
    ELSE IF adj # Undefined THEN ForecastWithAdj(matrix, v0, curIdx, adj, k)
    ELSE vecMul(v0, matPow(matrix, k))

multiStepForecast(trans, curState, stepMap, adj) ==
    LET v0 == [j \in Idx |-> IF j = IDX[curState] THEN One ELSE Zero]
    IN  [name \in DOMAIN stepMap |-> ForecastFor(trans, v0, IDX[curState], adj, stepMap[name])]

----------------------------------------------------------------------------
(* unnamed/part_006 : buildOrder2Counts, rowFromOrder2 *)

\* the key `${prev}${current}`
PairKeys == StateKeys \X StateKeys

\* the table after the loop has run over i = 1 .. n (0-based i, i + 1 < length)
RECURSIVE Order2From(_, _)
Order2From(sts, n) ==
    IF n < 1 THEN <<>>
    ELSE LET prev    == Order2From(sts, n - 1)
             key     == <<sts[n], sts[n + 1]>>
             nextIdx == IDX[sts[n + 2]]
             arr     == IF key \in DOMAIN prev THEN prev[key] ELSE [j \in Idx |-> 0]
         IN  [k \in (DOMAIN prev) \cup {key} |->
                 IF k = key THEN [arr EXCEPT ![nextIdx] = @ + 1] ELSE prev[k]]

buildOrder2Counts(sts) == Order2From(sts, Len(sts) - 2)

Null == <<"null">>

MinCountDefault == 12

\* mutant: a pair whose count equals the minimum is rejected as well
rowFromOrder2_OffByOne(tbl, key, min) ==
    IF key \notin DOMAIN tbl THEN Null
    ELSE LET arr   == tbl[key]
             total == arr[0] + arr[1] + arr[2] + arr[3]
         IN  IF total <= min THEN Null
             ELSE normalizeRow([j \in Idx |-> RAdd(Rat(arr[j], 1), Rat(1, 2))])

rowFromOrder2(tbl, key, min) ==
    IF key \notin DOMAIN tbl THEN Null
    ELSE LET arr   == tbl[key]
             total == arr[0] + arr[1] + arr[2] + arr[3]
         IN  IF total < min THEN Null
             ELSE normalizeRow([j \in Idx |-> RAdd(Rat(arr[j], 1), Rat(1, 2))])

----------------
(* Inputs of the Markov builder *)

\* all histories over the four states of length lo..hi
SeqsOf(lo, hi) == UNION {[1..n -> StateKeys] : n \in lo..hi}

Smoothings == {Zero, Rat(1, 2)}

DirichletStrengths == {Zero, One}

Orders == {1, 2, 3}

BuildOptionSet ==
    [window : {1, 2, MaxLen}, smoothing : Smoothings, halfLife : HalfLives,
     order : Orders, dirichletStrength : DirichletStrengths]

NoBuild == [counts |-> ZeroMatrix, probs |-> ZeroMatrix]

InitBuild ==
    /\ pc = "input"
    /\ states \in SeqsOf(2, MaxLen)
    /\ options \in BuildOptionSet
    /\ build = NoBuild
    /\ legacy = NoBuild
    /\ IdleSemi /\ IdleBlend /\ IdleForecast /\ IdleOrder2 /\ IdleFetch /\ IdleKMeans /\ IdleRest

BuildMarkov ==
    /\ pc = "input"
    /\ build' = [f \in {"counts", "probs"} |-> buildMarkovWeighted(states, options)[f]]
    /\ pc' = "built"
    /\ UNCHANGED <<states, options, legacy, varsSemi, varsBlend, varsForecast, varsOrder2, varsFetch, varsKMeans, varsRest>>

BuildMarkovLegacy ==
    /\ pc = "input"
    /\ legacy' = buildMarkovWeightedLegacy(states, options.window, options.smoothing, options.halfLife)
    /\ pc' = "builtLegacy"
    /\ UNCHANGED <<states, options, build, varsSemi, varsBlend, varsForecast, varsOrder2, varsFetch, varsKMeans, varsRest>>

NextBuild == BuildMarkov \/ BuildMarkovLegacy

SpecBuild == InitBuild /\ [][NextBuild]_vars

\* a probability row: every entry in [0,1] and the entries sum to 1
IsProbRow(r) ==
    /\ \A j \in Idx : IsFinite(r[j]) /\ RLe(Zero, r[j]) /\ RLe(r[j], One)
    /\ RowSum(r) = One

\* C1: every row of the probs matrix returned by buildMarkovWeighted (both
\* variants) for a history of length >= 2 and a valid configuration is a
\* probability row (entries in [0,1], sum 1).
C1_ProbsRowStochastic ==
    /\ pc = "built" => \A i \in Idx : IsProbRow(build.probs[i])
    /\ pc = "builtLegacy" => \A i \in Idx : IsProbRow(legacy.probs[i])

\* the options variant has built a non-uniform row with an order-2 context
\* boost and a Dirichlet prior in play
C1_Witness ==
    /\ pc = "built"
    /\ options.order = 2 /\ options.dirichletStrength = One /\ options.halfLife = 1
    /\ Len(states) >= 3
    /\ \E i \in Idx : build.probs[i] # UniformRow /\ build.counts[i] # ZeroMatrix[i]

\* the history holds a transition from -> to
HasTransition(sts, from, to) ==
    \E i \in 1..(Len(sts) - 1) : sts[i] = from /\ sts[i + 1] = to

\* the history holds a transition out of from
HasTransitionFrom(sts, from) ==
    \E i \in 1..(Len(sts) - 1) : sts[i] = from

\* the built matrix of the variant that has run, empty before
BuiltProbs ==
    IF pc = "built" THEN build.probs ELSE IF pc = "builtLegacy" THEN legacy.probs ELSE <<>>

\* no prior in play: smoothing 0 and, for the options variant, dirichletStrength 0
NoPrior ==
    /\ options.smoothing = Zero
    /\ pc = "built" => options.dirichletStrength = Zero

\* C14 as stated: with dirichletStrength = 0 and smoothing = 0 and no Down->Up
\* transition in the history, probs[Down][Up] is exactly 0.
C14_DownUpExactlyZero ==
    (pc \in {"built", "builtLegacy"} /\ NoPrior /\ ~HasTransition(states, "D", "U"))
        => BuiltProbs[IDX["D"]][IDX["U"]] = Zero

\* C14 amended: under the same configuration probs[Down][Up] is exactly 0 when
\* the window holds a transition out of Down, and 1/4 (the uniform fallback of
\* a zero-sum row) when it holds none; it is never NaN.
C14_DownUpZeroOrUniform ==
    (pc \in {"built", "builtLegacy"} /\ NoPrior /\ ~HasTransition(states, "D", "U"))
        => BuiltProbs[IDX["D"]][IDX["U"]] =
               (IF HasTransitionFrom(Filtered(states, options.window), "D")
                THEN Zero ELSE Rat(1, STATE_COUNT))

\* the options variant has built a Down row from observed Down->Down and
\* Down->Reversal transitions, with Up elsewhere in the history
C14_Witness ==
    /\ pc = "built" /\ NoPrior
    /\ ~HasTransition(states, "D", "U")
    /\ HasTransition(Filtered(states, options.window), "D", "D")
    /\ HasTransition(Filtered(states, options.window), "D", "R")
    /\ \E i \in 1..Len(states) : states[i] = "U"
    /\ build.probs[IDX["D"]][IDX["U"]] = Zero
    /\ build.probs[IDX["D"]] # UniformRow

----------------------------------------------------------------------------
(* The Markov builder at the boundary: non-positive windows *)

BoundaryOptionSet ==
    [window : {0, -1, 0 - MaxLen}, smoothing : Smoothings, halfLife : HalfLives,
     order : {1, 2}, dirichletStrength : DirichletStrengths]

InitBoundary ==
    /\ pc = "input"
    /\ states \in SeqsOf(2, MaxLen)
    /\ options \in BoundaryOptionSet
    /\ build = NoBuild
    /\ legacy = NoBuild
    /\ IdleSemi /\ IdleBlend /\ IdleForecast /\ IdleOrder2 /\ IdleFetch /\ IdleKMeans /\ IdleRest

SpecBoundary == InitBoundary /\ [][NextBuild]_vars

\* what a caller would hold had the builder reported an error instead of a result
Rejected == [counts |-> <<>>, probs |-> <<>>]

\* C20: for a non-positive window the builder reports an error instead of
\* returning a transition matrix.
C20_NonPositiveWindowRejected ==
    /\ (pc = "built" /\ options.window <= 0) => build = Rejected
    /\ (pc = "builtLegacy" /\ options.window <= 0) => legacy = Rejected

\* histories from the empty one on, under windows that keep none, one, two or
\* all of their states
InitDegenerate ==
    /\ pc = "input"
    /\ states \in SeqsOf(0, MaxLen)
    /\ options \in [window : {0, 1, 2, MaxLen}, smoothing : Smoothings, halfLife : HalfLives,
                    order : {1, 2}, dirichletStrength : DirichletStrengths]
    /\ build = NoBuild
    /\ legacy = NoBuild
    /\ IdleSemi /\ IdleBlend /\ IdleForecast /\ IdleOrder2 /\ IdleFetch /\ IdleKMeans /\ IdleRest

\* buildMarkovWeighted(states, options), its weight list kept with the matrices
BuildMarkovResult ==
    /\ pc = "input"
    /\ build' = [f \in {"counts", "probs", "weights"} |-> buildMarkovWeighted(states, options)[f]]
    /\ pc' = "returned"
    /\ UNCHANGED <<states, options, legacy, varsSemi, varsBlend, varsForecast, varsOrder2, varsFetch, varsKMeans, varsRest>>

SpecDegenerate == InitDegenerate /\ [][BuildMarkovResult]_vars

\* C21: when fewer than 2 states remain after windowing, buildMarkovWeighted
\* returns a matrix whose every entry is 1/4, all-zero counts and no weights.
C21_DegenerateIsUniform ==
    LET remaining == IF options.window > 0 /\ Len(states) > options.window
                     THEN options.window ELSE Len(states)
    IN  (pc = "returned" /\ remaining < 2)
            => /\ \A i \in Idx : \A j \in Idx : build.probs[i][j] = Rat(1, 4)
               /\ \A i \in Idx : \A j \in Idx : build.counts[i][j] = Zero
               /\ build.weights = <<>>

\* a history of several states cut to its last state by a window of 1
C21_Witness ==
    /\ pc = "returned"
    /\ Len(states) = MaxLen
    /\ \E i \in 1..(Len(states) - 1) : states[i] # states[i + 1]
    /\ options.window = 1
    /\ build.probs = [i \in Idx |-> UniformRow]
    /\ build.weights = <<>>

----------------------------------------------------------------------------
(* Inputs of the semi-Markov correction *)

OneHot(i) == [j \in Idx |-> IF j = i THEN One ELSE Zero]

ProbRows ==
    { UniformRow,
      OneHot(3),
      [j \in Idx |-> Rat(<<2, 1, 1, 0>>[j + 1], 4)],
      [j \in Idx |-> Rat(<<0, 1, 2, 7>>[j + 1], 10)] }

\* the defaults of semiMarkovAdjustFirstRow and the options computeAll passes
SemiOptionSet ==
    { [smoothing |-> Rat(35, 100), minSamples |-> 2],
      [smoothing |-> Rat(4, 10), minSamples |-> 3] }

InitSemi ==
    /\ pc = "input"
    /\ states \in SeqsOf(0, MaxHist)
    /\ rowBase \in ProbRows
    /\ semiOpts \in SemiOptionSet
    /\ adjusted = rowBase
    /\ IdleBuild /\ IdleBlend /\ IdleForecast /\ IdleOrder2 /\ IdleFetch /\ IdleKMeans /\ IdleRest

SemiMarkovAdjust ==
    /\ pc = "input"
    /\ adjusted' = semiMarkovAdjustFirstRow(rowBase, states, semiOpts)
    /\ pc' = "adjusted"
    /\ UNCHANGED <<states, rowBase, semiOpts, varsBuild, varsBlend, varsForecast, varsOrder2, varsFetch, varsKMeans, varsRest>>

\* computeAll of the ensemble revision passes estimateDurations and computeRunLength
SemiMarkovAdjustDuration ==
    /\ pc = "input"
    /\ adjusted' = semiMarkovAdjustFirstRowDuration(rowBase, states, estimateDurations(states),
                                                    computeRunLength(states))
    /\ pc' = "adjustedDuration"
    /\ UNCHANGED <<states, rowBase, semiOpts, varsBuild, varsBlend, varsForecast, varsOrder2, varsFetch, varsKMeans, varsRest>>

SemiMarkovAdjustFallback ==
    /\ pc = "input"
    /\ adjusted' = semiMarkovAdjustFirstRowDuration(rowBase, states, NoDurations, computeRunLength(states))
    /\ pc' = "adjustedFallback"
    /\ UNCHANGED <<states, rowBase, semiOpts, varsBuild, varsBlend, varsForecast, varsOrder2, varsFetch, varsKMeans, varsRest>>

SemiMarkovAdjustLegacy ==
    /\ pc = "input"
    /\ adjusted' = semiMarkovAdjustFirstRowLegacy(rowBase, states)
    /\ pc' = "adjustedLegacy"
    /\ UNCHANGED <<states, rowBase, semiOpts, varsBuild, varsBlend, varsForecast, varsOrder2, varsFetch, varsKMeans, varsRest>>

NextSemi ==
    \/ SemiMarkovAdjust
    \/ SemiMarkovAdjustDuration
    \/ SemiMarkovAdjustFallback
    \/ SemiMarkovAdjustLegacy

SpecSemi == InitSemi /\ [][NextSemi]_vars

\* C3: for a probability rowBase and any state history, the rowBase returned by
\* semiMarkovAdjustFirstRow (hazard variant, duration variant, and the
\* median-run fallback) has all entries in [0,1] and sums to 1.
C3_SemiMarkovPreservesRowSum ==
    pc \in {"adjusted", "adjustedDuration", "adjustedFallback", "adjustedLegacy"}
        => IsProbRow(adjusted)

\* the hazard correction has changed the stay entry and rescaled the others
C3_Witness ==
    /\ pc = "adjusted"
    /\ Len(states) > 0
    /\ adjusted[IDX[states[Len(states)]]] # rowBase[IDX[states[Len(states)]]]
    /\ \E j \in Idx : j # IDX[states[Len(states)]] /\ adjusted[j] # rowBase[j]

\* C22: when the current state has fewer runs in the history than the minimum
\* sample count, semiMarkovAdjustFirstRow (hazard variant and duration
\* variant) returns a row element-wise equal to its input row.
C22_FewRunsRowUnchanged ==
    (/\ pc \in {"adjusted", "adjustedDuration"}
     /\ Len(states) > 0
     /\ Len(extractRuns(states, states[Len(states)])) < semiOpts.minSamples)
        => \A j \in Idx : adjusted[j] = rowBase[j]

----------------------------------------------------------------------------
(* The duration profile of a history: estimateDurations and computeRunLength *)

InitDurations ==
    /\ pc = "input"
    /\ states \in SeqsOf(0, MaxHist)
    /\ durationMap = [k \in StateKeys |-> <<>>]
    /\ trailingRun = 0
    /\ IdleEngine /\ IdleSecond /\ IdleRegime /\ IdleClusters

\* const durations = estimateDurations(states); const runLength = computeRunLength(states)
EstimateDurations ==
    /\ pc = "input"
    /\ durationMap' = estimateDurations(states)
    /\ trailingRun' = computeRunLength(states)
    /\ pc' = "profiled"
    /\ UNCHANGED <<states, varsEngine, varsSecond, varsRegime, varsClusters>>

SpecDurations == InitDurations /\ [][EstimateDurations]_vars

\* the lengths of the maximal runs of state k in the history, in order of
\* occurrence, the trailing run included
MaximalRuns(k) ==
    LET n       == Len(states)
        starts  == {a \in 1..n : states[a] = k /\ (a = 1 \/ states[a - 1] # k)}
        EndOf(a) == CHOOSE b \in a..n :
                       /\ \A i \in a..b : states[i] = k
                       /\ (b = n \/ states[b + 1] # k)
        ordered == CHOOSE f \in [1..Cardinality(starts) -> starts] :
                       \A p, q \in 1..Cardinality(starts) : p < q => f[p] < f[q]
    IN  [p \in 1..Cardinality(starts) |-> EndOf(ordered[p]) - ordered[p] + 1]

\* the number of states that end the history and equal its last state
TrailingRun ==
    IF states = <<>> THEN 0
    ELSE CHOOSE r \in 1..Len(states) :
             /\ \A i \in (Len(states) - r + 1)..Len(states) : states[i] = states[Len(states)]
             /\ (r = Len(states) \/ states[Len(states) - r] # states[Len(states)])

\* the sum of a list of run lengths
RECURSIVE RunTotal(_)
RunTotal(runs) == IF runs = <<>> THEN 0 ELSE Head(runs) + RunTotal(Tail(runs))

\* C28 as stated: the profile holds for each state exactly its maximal runs
\* and nothing else, so all run lengths sum to the history length, and
\* computeRunLength is the trailing run length.
C28_ProfileIsExactlyTheRuns ==
    pc = "profiled"
        => /\ \A k \in StateKeys : durationMap[k] = MaximalRuns(k)
           /\ RunTotal(durationMap["D"]) + RunTotal(durationMap["R"])
                  + RunTotal(durationMap["B"]) + RunTotal(durationMap["U"]) = Len(states)
           /\ trailingRun = TrailingRun

\* C28 amended: the same for the states that occur in the history; a state
\* that does not occur in a non-empty history holds the single length 1, and
\* every list is empty for the empty history; the run lengths of the occurring
\* states sum to the history length. extractRuns gives the maximal runs of
\* every state.
C28_ProfileOfOccurringStates ==
    pc = "profiled"
        => LET occurring == {states[i] : i \in 1..Len(states)}
           IN  /\ \A k \in occurring : durationMap[k] = MaximalRuns(k)
               /\ \A k \in StateKeys \ occurring :
                      durationMap[k] = IF states = <<>> THEN <<>> ELSE <<1>>
               /\ LET Held(k) == IF k \in occurring THEN RunTotal(durationMap[k]) ELSE 0
                  IN  Held("D") + Held("R") + Held("B") + Held("U") = Len(states)
               /\ \A k \in StateKeys : extractRuns(states, k) = MaximalRuns(k)
               /\ trailingRun = TrailingRun

\* a history in which one state has two runs, the second still open, and
\* another state never occurs
C28_Witness ==
    /\ pc = "profiled"
    /\ Len(states) = MaxHist
    /\ \E k \in StateKeys : Len(durationMap[k]) = 2 /\ states[Len(states)] = k
    /\ \E k \in StateKeys : (\A i \in 1..Len(states) : states[i] # k) /\ durationMap[k] = <<1>>
    /\ trailingRun > 1

----------------------------------------------------------------------------
(* The correction on histories whose runs of the current state all have one length *)

MaxRuns == 3         \* most runs of the current state in such a history

\* a run of five repeats of the state
RunOfFive(s) == [i \in 1..5 |-> s]

\* what separates two runs: one or two repeats of another state
GapsOf(cur) == {[i \in 1..n |-> s] : s \in StateKeys \ {cur}, n \in 1..2}

\* runs of five of cur separated by the gaps, ending in a run of five
RECURSIVE RunsOfFive(_, _)
RunsOfFive(cur, gaps) ==
    IF Len(gaps) = 0 THEN RunOfFive(cur)
    ELSE RunOfFive(cur) \o Head(gaps) \o RunsOfFive(cur, Tail(gaps))

RunHistories ==
    UNION {{RunsOfFive(cur, gaps) : gaps \in [1..n -> GapsOf(cur)]} :
              cur \in StateKeys, n \in 0..(MaxRuns - 1)}

InitRuns ==
    /\ pc = "input"
    /\ states \in RunHistories
    /\ rowBase \in ProbRows
    /\ semiOpts \in SemiOptionSet
    /\ adjusted = rowBase
    /\ IdleBuild /\ IdleBlend /\ IdleForecast /\ IdleOrder2 /\ IdleFetch /\ IdleKMeans /\ IdleRest

SpecRuns == InitRuns /\ [][NextSemi]_vars

\* the current state of a non-empty history, as an index
CurIdx == IDX[states[Len(states)]]

\* the hazard variant sees exits == survivors and the duration variant no longer run
HazardIsOne ==
    LET cur  == states[Len(states)]
        runs == extractRuns(states, cur)
        run  == computeRunLength(states)
    IN  /\ run = 5
        /\ CountEqual(runs, run) = CountAtLeast(runs, run)
        /\ hazardOf(runs, run) = One
        /\ survivalProb(estimateDurations(states)[cur], run) = Rat(1, Len(runs) + 2)

\* the stay entry has not grown and the non-stay entries have not shrunk
MovedToNonStay ==
    /\ RLe(adjusted[CurIdx], rowBase[CurIdx])
    /\ RLe(OtherSum(rowBase, CurIdx), OtherSum(adjusted, CurIdx))

\* C15 as stated: when every run of the current state has length 5 and the
\* current run length is 5, hazard is 1 and the corrected row has a stay entry
\* no larger than the input row's and non-stay entries summing to at least
\* their input sum.
C15_RowCollapsesToNonStay ==
    pc \in {"adjusted", "adjustedDuration", "adjustedFallback", "adjustedLegacy"}
        => HazardIsOne /\ MovedToNonStay

\* C15 amended: the same, for input rows whose stay entry is at least 0.05,
\* the floor the correction puts under the continuation target.
C15_RowCollapsesAboveFloor ==
    pc \in {"adjusted", "adjustedDuration", "adjustedFallback", "adjustedLegacy"}
        => /\ HazardIsOne
           /\ RLe(Rat(1, 20), rowBase[CurIdx]) => MovedToNonStay

\* three runs of five: the hazard variant has lowered a stay entry above the
\* floor and raised the non-stay entries
C15_Witness ==
    /\ pc = "adjusted"
    /\ Len(extractRuns(states, states[Len(states)])) = 3
    /\ RLe(Rat(1, 20), rowBase[CurIdx])
    /\ RLt(adjusted[CurIdx], rowBase[CurIdx])
    /\ RLt(OtherSum(rowBase, CurIdx), OtherSum(adjusted, CurIdx))

----------------------------------------------------------------------------
(* Inputs of the ensemble blend *)

ZeroRow == [j \in Idx |-> Zero]

BlendRowSet ==
    { UniformRow, OneHot(3), [j \in Idx |-> Rat(<<0, 1, 2, 7>>[j + 1], 10)], ZeroRow }

\* the weights computeAll uses (0.6 and 0.25), and a zero weight
BlendWeightSet == {Zero, Rat(6, 10), Rat(25, 100)}

InitBlend ==
    /\ pc = "input"
    /\ \E n \in 1..MaxRows :
          /\ components \in [1..n -> BlendRowSet]
          /\ blendWeights \in [1..n -> BlendWeightSet]
    /\ rowBlended = ZeroRow
    /\ states = <<>>
    /\ IdleBuild /\ IdleSemi /\ IdleForecast /\ IdleOrder2 /\ IdleFetch /\ IdleKMeans /\ IdleRest

BlendRows ==
    /\ pc = "input"
    /\ rowBlended' = blendRows(components, blendWeights)
    /\ pc' = "blended"
    /\ UNCHANGED <<states, components, blendWeights, varsBuild, varsSemi, varsForecast, varsOrder2, varsFetch, varsKMeans, varsRest>>

NextBlend == BlendRows

SpecBlend == InitBlend /\ [][NextBlend]_vars

\* the sum over all cells of weight * row, with the weights as given
WeightedTotal ==
    SeqSum([n \in 1..Len(components) |-> RMul(blendWeights[n], RowSum(components[n]))],
           Len(components))

\* C4: blendRows of N >= 1 probability rows with N positive weights returns a
\* row that sums to 1; when the weighted sum is zero it returns the uniform row.
C4_BlendSumsToOne ==
    pc = "blended" =>
        /\ ( /\ \A n \in 1..Len(components) : IsProbRow(components[n])
             /\ \A n \in 1..Len(blendWeights) : RLt(Zero, blendWeights[n]) )
              => IsProbRow(rowBlended)
        /\ WeightedTotal = Zero => rowBlended = UniformRow

\* three distinct probability rows blended with unequal positive weights
C4_Witness ==
    /\ pc = "blended"
    /\ Len(components) = 3
    /\ \A n \in 1..3 : IsProbRow(components[n]) /\ RLt(Zero, blendWeights[n])
    /\ components[1] # components[2] /\ components[2] # components[3]
    /\ blendWeights[1] # blendWeights[2]
    /\ rowBlended \notin {components[n] : n \in 1..3}

----------------------------------------------------------------------------
(* Inputs of the forecast engine *)

TransitionRows ==
    { UniformRow,
      [j \in Idx |-> Rat(<<2, 1, 1, 0>>[j + 1], 4)],
      [j \in Idx |-> Rat(<<0, 1, 2, 7>>[j + 1], 10)] }

HorizonNames == {"1h", "4h"}

\* step counts per horizon, the longer horizon taking at least as many steps
StepMaps ==
    {m \in [HorizonNames -> (-1)..MaxSteps] : m["1h"] <= m["4h"]}

InitForecast ==
    /\ pc = "input"
    /\ transition \in [Idx -> TransitionRows]
    /\ currentState \in StateKeys
    /\ steps \in StepMaps
    /\ firstRowAdj \in ProbRows \cup {Undefined}
    /\ forecasts = [name \in HorizonNames |-> ZeroRow]
    /\ states = <<>>
    /\ IdleBuild /\ IdleSemi /\ IdleBlend /\ IdleOrder2 /\ IdleFetch /\ IdleKMeans /\ IdleRest

MultiStepForecast ==
    /\ pc = "input"
    /\ forecasts' = multiStepForecast(transition, currentState, steps, firstRowAdj)
    /\ pc' = "forecast"
    /\ UNCHANGED <<states, transition, currentState, steps, firstRowAdj,
                   varsBuild, varsSemi, varsBlend, varsOrder2, varsFetch, varsKMeans, varsRest>>

NextForecast == MultiStepForecast

SpecForecast == InitForecast /\ [][NextForecast]_vars

\* C2: every forecast vector returned by multiStepForecast, for any step count,
\* current state, row-stochastic matrix and probability first row (or none),
\* is a probability distribution over the four states.
C2_ForecastIsDistribution ==
    pc = "forecast" => \A name \in HorizonNames : IsProbRow(forecasts[name])

\* a three-step forecast with an adjusted first row that is neither the
\* adjusted row nor the one-hot start
C2_Witness ==
    /\ pc = "forecast"
    /\ firstRowAdj # Undefined
    /\ steps["4h"] = 3
    /\ forecasts["4h"] # firstRowAdj
    /\ forecasts["4h"] # OneHot(IDX[currentState])

\* one step of vec through the matrix, written cell by cell (stepDistribution)
StepVec(vec, mat) ==
    NewArray([j \in Idx |-> RAdd(RAdd(RMul(vec[0], mat[0][j]), RMul(vec[1], mat[1][j])),
                                 RAdd(RMul(vec[2], mat[2][j]), RMul(vec[3], mat[3][j])))])

\* vec pushed n times through the unmodified matrix
RECURSIVE Propagate(_, _, _)
Propagate(vec, mat, n) == IF n = 0 THEN vec ELSE Propagate(StepVec(vec, mat), mat, n - 1)

\* C5: with an adjusted row r supplied and k >= 1 steps the forecast is r
\* pushed k - 1 times through the unmodified matrix; for k = 1 it is r.
C5_AdjustedRowAppliedOnce ==
    (pc = "forecast" /\ firstRowAdj # Undefined) =>
        \A name \in HorizonNames :
            steps[name] >= 1 =>
                /\ forecasts[name] = Propagate(firstRowAdj, transition, steps[name] - 1)
                /\ steps[name] = 1 => forecasts[name] = firstRowAdj

\* a forecast of at least two steps whose adjusted row differs from the row
\* it replaces, next to a one-step forecast
C5_Witness ==
    /\ pc = "forecast"
    /\ firstRowAdj # Undefined
    /\ firstRowAdj # transition[IDX[currentState]]
    /\ steps["1h"] = 1 /\ steps["4h"] >= 2
    /\ forecasts["4h"] # forecasts["1h"]

\* C6: a step count <= 0 yields the one-hot vector of the current state,
\* with or without an adjusted first row.
C6_NonPositiveStepsOneHot ==
    pc = "forecast" =>
        \A name \in HorizonNames :
            steps[name] <= 0 =>
                \A j \in Idx : forecasts[name][j] = (IF STATES[j + 1] = currentState THEN One ELSE Zero)

\* a zero-step and a negative-step horizon forecast with an adjusted row supplied
C6_Witness ==
    /\ pc = "forecast"
    /\ firstRowAdj # Undefined
    /\ steps["1h"] = -1 /\ steps["4h"] = 0
    /\ forecasts["4h"][IDX[currentState]] = One

----------------------------------------------------------------------------
(* matPow on its own: any 4x4 matrix of finite numbers *)

MatrixRows ==
    TransitionRows \cup
    { ZeroRow,
      [j \in Idx |-> Rat(<<-2, 0, 4, 1>>[j + 1], 2)],
      [j \in Idx |-> Rat(<<3, -1, 1, 5>>[j + 1], 3)] }

InitPower ==
    /\ pc = "input"
    /\ transition \in [Idx -> MatrixRows]
    /\ exponent \in (-1)..MaxSteps
    /\ power = ZeroMatrix
    /\ states = <<>>
    /\ currentState = "" /\ steps = <<>> /\ firstRowAdj = <<>> /\ forecasts = <<>>
    /\ IdleBuild /\ IdleSemi /\ IdleBlend /\ IdleOrder2 /\ IdleFetch /\ IdleKMeans
    /\ IdleApp /\ IdleSelector /\ IdleConditioning /\ IdleStore
    /\ IdleLearner

MatPow ==
    /\ pc = "input"
    /\ power' = matPow(transition, exponent)
    /\ pc' = "powered"
    /\ UNCHANGED <<states, exponent, varsEngine, varsApp, varsSelector, varsConditioning, varsStore,
                   varsLearner>>

NextPower == MatPow

SpecPower == InitPower /\ [][NextPower]_vars

\* C17: for every 4x4 matrix M, matPow(M, 0) is the identity matrix and
\* matPow(M, 1) equals M entry for entry.
C17_PowerZeroAndOne ==
    pc = "powered" =>
        /\ exponent = 0 => \A i \in Idx : \A j \in Idx :
                               power[i][j] = (IF i = j THEN One ELSE Zero)
        /\ exponent = 1 => \A i \in Idx : \A j \in Idx : power[i][j] = transition[i][j]

\* the first power of a matrix that is not row-stochastic and has a negative entry
C17_Witness ==
    /\ pc = "powered"
    /\ exponent = 1
    /\ \E i \in Idx : \E j \in Idx : RLt(transition[i][j], Zero)
    /\ \E i \in Idx : RowSum(transition[i]) # One
    /\ power = transition

----------------------------------------------------------------------------
(* Inputs of the conditioning model *)

\* every entry of a buildFeatures vector has passed through safe(): finite
FeatureValues == {Rat(-1, 1), Zero, Rat(3, 2)}

\* vectors of FEATURE_DIM entries, the pattern of the first five repeated
FeatureVectors ==
    {[f \in 1..FEATURE_DIM |-> v[((f - 1) % 5) + 1]] : v \in [1..5 -> FeatureValues]}

\* a model as fitLogitModel returns it: weights, bias, a temperature of its
\* grid, and the feature normalization
fittedLogitModel ==
    [W |-> [j \in 1..STATE_COUNT |-> [f \in 1..FEATURE_DIM |-> Rat(j - f, 8)]],
     b |-> [j \in 1..STATE_COUNT |-> Rat(j - 2, 4)],
     temperature |-> Rat(8, 10),
     mean |-> [f \in 1..FEATURE_DIM |-> Rat(f, 100)],
     std |-> [f \in 1..FEATURE_DIM |-> One]]

InitConditioning ==
    /\ pc = "input"
    /\ features \in FeatureVectors
    /\ logitModel \in {defaultLogitModel, fittedLogitModel}
    /\ rowConditioned = ZeroRow
    /\ states = <<>>
    /\ IdleEngine /\ IdleApp /\ IdleSelector /\ IdlePower /\ IdleStore
    /\ IdleLearner

ConditionedRow ==
    /\ pc = "input"
    /\ rowConditioned' = conditionedRow(features, logitModel)
    /\ pc' = "conditioned"
    /\ UNCHANGED <<states, features, logitModel, varsEngine, varsApp, varsSelector, varsPower, varsStore,
                   varsLearner>>

NextConditioning == ConditionedRow

SpecConditioning == InitConditioning /\ [][NextConditioning]_vars

\* C16: conditionedRow with the untrained default model (zero weights, zero
\* bias, temperature 1.2) returns the uniform row for every feature vector.
C16_DefaultModelUniform ==
    (pc = "conditioned" /\ logitModel = defaultLogitModel)
        => \A j \in Idx : rowConditioned[j] = Rat(1, 4)

\* the default model applied to a feature vector with positive and negative entries
C16_Witness ==
    /\ pc = "conditioned"
    /\ logitModel = defaultLogitModel
    /\ \E f \in 1..FEATURE_DIM : RLt(Zero, features[f])
    /\ \E f \in 1..FEATURE_DIM : RLt(features[f], Zero)
    /\ rowConditioned = UniformRow

\* C29: for a trained model, conditionedRow(x, model) equals the softmax of
\* (b + W.((x - mean) / std)) / temperature: the features are standardized
\* with the stored mean and std before the logits are computed.
C29_StandardizedInference ==
    (pc = "conditioned" /\ "mean" \in DOMAIN logitModel)
        => LET standardized ==
                   [f \in 1..Len(features) |->
                       RDiv(RSub(features[f], logitModel.mean[f]), logitModel.std[f])]
               logits == [k \in Idx |-> Logit(standardized, logitModel, k)]
               scaled == [k \in Idx |-> RDiv(logits[k], logitModel.temperature)]
               maxLogit == MaxLogit(scaled, STATE_COUNT - 1)
           IN  rowConditioned = Softmax([k \in Idx |-> RSub(scaled[k], maxLogit)])

----------------------------------------------------------------------------
(* smoothStates pass by pass, on every sequence of reconciled states *)

MaxSmooth == 7       \* longest sequence handed to smoothStates

\* computeAll passes smoothPasses: 2
SmoothPasses == 2

InitSmooth ==
    /\ pc = "smoothing"
    /\ combinedStates \in SeqsOf(0, MaxSmooth)
    /\ regimeOpts = [confidenceGate |-> Rat(45, 100), smoothPasses |-> SmoothPasses]
    /\ smoothedStates = combinedStates
    /\ passesDone = 0
    /\ regimeRows = <<>>
    /\ learnedStates = <<>> /\ learnedConfidence = <<>>
    /\ states = <<>>
    /\ IdleEngine /\ IdleSecond /\ IdleDurations /\ IdleClusters

\* one iteration of the loop over passes; the last one returns
SmoothPass ==
    /\ pc = "smoothing"
    /\ smoothedStates' = IF regimeOpts.smoothPasses > 0 THEN smoothPass(smoothedStates)
                         ELSE smoothedStates
    /\ passesDone' = IF regimeOpts.smoothPasses > 0 THEN passesDone + 1 ELSE passesDone
    /\ pc' = IF passesDone' >= regimeOpts.smoothPasses THEN "smoothed" ELSE "smoothing"
    /\ UNCHANGED <<states, regimeRows, regimeOpts, learnedStates, learnedConfidence, combinedStates,
                   varsEngine, varsSecond, varsDurations, varsClusters>>

SpecSmooth == InitSmooth /\ [][SmoothPass]_vars

\* seven consecutive rows that alternate between two states
HasLongAlternation(sts) ==
    \E i \in 1..(Len(sts) - 6) :
        /\ sts[i] # sts[i + 1]
        /\ \A j \in i..(i + 4) : sts[j] = sts[j + 2]

\* C25 as stated: the sequence returned after the smoothing passes contains
\* no isolated one-bar flip (a row whose two neighbours agree with each other
\* and differ from it).
C25_NoIsolatedFlipLeft ==
    pc = "smoothed" => \A i \in 1..Len(smoothedStates) : ~IsFlip(smoothedStates, i)

NoFlipLeftWithoutLongAlternation ==
    (pc = "smoothed" /\ ~HasLongAlternation(combinedStates))
        => \A i \in 1..Len(smoothedStates) : ~IsFlip(smoothedStates, i)

PassOverwritesFlips ==
    passesDone' = passesDone + 1
        => /\ Len(smoothedStates') = Len(smoothedStates)
           /\ \A i \in 1..Len(smoothedStates) :
                  smoothedStates'[i] = IF IsFlip(smoothedStates, i)
                                       THEN smoothedStates[i - 1] ELSE smoothedStates[i]

\* C25 amended: each pass overwrites every isolated one-bar flip of the
\* sequence it starts from with its neighbours' state and leaves the other rows
\* alone, and the sequence returned after the two passes contains no isolated
\* flip when the reconciled sequence has no seven consecutive rows alternating
\* between two states.
C25_FlipsRemovedPassByPass ==
    []NoFlipLeftWithoutLongAlternation /\ [][PassOverwritesFlips]_vars

\* a sequence without a long alternation that still has a flip after the
\* first pass, smoothed by both passes
C25_Witness ==
    /\ pc = "smoothed"
    /\ passesDone = 2
    /\ ~HasLongAlternation(combinedStates)
    /\ \E i \in 1..Len(combinedStates) : IsFlip(smoothPass(combinedStates), i)
    /\ smoothedStates = smoothStates(combinedStates, 2)

----------------------------------------------------------------------------
(* inferRegimeStates on rows with their rule state, higher-timeframe state and
   clustering outcome *)

MaxRegimeRows == 4   \* longest candle history handed to inferRegimeStates

\* gates of [0, 1]: the ends, the default of inferRegimeStates and that of computeAll
ConfidenceGates == {Zero, Rat(4, 10), Rat(45, 100), One}

\* confidences of [0, 1] on, between and beyond gate * 0.5, gate and gate + 0.2
Confidences ==
    {Zero, Rat(1, 5), Rat(9, 40), Rat(3, 10), Rat(2, 5), Rat(9, 20), Rat(1, 2),
     Rat(3, 5), Rat(13, 20), One}

\* a row without a finite feature vector takes no part in the clustering
RowsWithoutFeatures ==
    [rule : StateKeys, htfState : StateKeys \cup {NoHtf}, finite : {FALSE},
     learned : {NullState}, conf : {Zero}]

\* a row with a finite feature vector gets the state of its cluster and a confidence
RowsWithFeatures ==
    [rule : StateKeys, htfState : StateKeys \cup {NoHtf}, finite : {TRUE},
     learned : StateKeys, conf : Confidences]

\* rows on which the learned label agrees with the rule, and rows without features
PlainRows ==
    {r \in RowsWithFeatures : r.learned = r.rule /\ r.htfState = NoHtf /\ r.conf = One}
        \cup {r \in RowsWithoutFeatures : r.htfState = NoHtf}

InitRegime ==
    /\ pc = "infer"
    /\ \/ /\ regimeRows \in [1..1 -> RowsWithFeatures \cup RowsWithoutFeatures]
          /\ regimeOpts \in [confidenceGate : ConfidenceGates, smoothPasses : {SmoothPasses}]
       \/ /\ regimeRows \in UNION {[1..n -> PlainRows] : n \in (0..MaxRegimeRows) \ {1}}
          /\ regimeOpts = [confidenceGate |-> Rat(45, 100), smoothPasses |-> SmoothPasses]
    /\ learnedStates = <<>> /\ learnedConfidence = <<>>
    /\ combinedStates = <<>>
    /\ smoothedStates = <<>>
    /\ passesDone = 0
    /\ states = <<>>
    /\ IdleEngine /\ IdleSecond /\ IdleDurations /\ IdleClusters

InferRegimeStates ==
    /\ pc = "infer"
    /\ pc' = "inferred"
    /\ IF FeatureIndices(regimeRows) = {}
       THEN /\ smoothedStates' = [i \in 1..Len(regimeRows) |-> regimeRows[i].rule]
            /\ learnedStates' = [i \in 1..Len(regimeRows) |-> NullState]
            /\ learnedConfidence' = [i \in 1..Len(regimeRows) |-> Zero]
            /\ UNCHANGED <<combinedStates, passesDone>>
       ELSE /\ learnedStates' = learnedOf(regimeRows)
            /\ learnedConfidence' = confidenceOf(regimeRows)
            /\ combinedStates' = combinedOf(regimeRows, regimeOpts.confidenceGate)
            /\ smoothedStates' = smoothStates(combinedStates', regimeOpts.smoothPasses)
            /\ passesDone' = regimeOpts.smoothPasses
    /\ UNCHANGED <<states, regimeRows, regimeOpts,
                   varsEngine, varsSecond, varsDurations, varsClusters>>

SpecRegime == InitRegime /\ [][InferRegimeStates]_vars

\* the rows that went through the reconciliation
Reconciled == IF pc = "inferred" /\ combinedStates # <<>> THEN 1..Len(regimeRows) ELSE {}

\* C23: reconciliation yields, in this order, the rule label when no label was
\* learned, the common label when learned = rule, the learned label when
\* confidence >= gate + 0.2, and the rule label when confidence <= gate * 0.5.
C23_ReconciliationOrder ==
    \A i \in Reconciled :
        LET rule    == regimeRows[i].rule
            learned == learnedStates[i]
            conf    == learnedConfidence[i]
            gate    == regimeOpts.confidenceGate
        IN  /\ learned = NullState => combinedStates[i] = rule
            /\ (learned # NullState /\ learned = rule) => combinedStates[i] = learned
            /\ (learned # NullState /\ learned # rule /\ RLe(RAdd(gate, Rat(1, 5)), conf))
                   => combinedStates[i] = learned
            /\ (/\ learned # NullState /\ learned # rule
                /\ ~RLe(RAdd(gate, Rat(1, 5)), conf)
                /\ RLe(conf, RMul(gate, Rat(1, 2))))
                   => combinedStates[i] = rule

\* a clustered row whose learned label differs from the rule, decided by the
\* low-confidence rule (9/40 at gate 9/20) or by the high-confidence rule (13/20)
C23_Witness ==
    /\ pc = "inferred"
    /\ Len(regimeRows) = 1
    /\ regimeRows[1].finite
    /\ learnedStates[1] # regimeRows[1].rule
    /\ \/ /\ regimeOpts.confidenceGate = Rat(45, 100)
          /\ learnedConfidence[1] = Rat(9, 40)
          /\ combinedStates[1] = regimeRows[1].rule
       \/ /\ regimeOpts.confidenceGate = Rat(45, 100)
          /\ learnedConfidence[1] = Rat(13, 20)
          /\ combinedStates[1] = learnedStates[1]

\* the rows in the ambiguous band whose learned label differs from the rule
Ambiguous ==
    {i \in Reconciled :
        /\ learnedStates[i] # NullState
        /\ learnedStates[i] # regimeRows[i].rule
        /\ RLt(RMul(regimeOpts.confidenceGate, Rat(1, 2)), learnedConfidence[i])
        /\ RLt(learnedConfidence[i], RAdd(regimeOpts.confidenceGate, Rat(1, 5)))}

\* C24 as stated: in the ambiguous band a learned Down under a higher-timeframe
\* Up becomes Reversal and a learned Up under a higher-timeframe Down becomes
\* Base; every other case is the learned label when confidence >= gate and the
\* rule label otherwise.
C24_DemotedInAmbiguousBand ==
    \A i \in Ambiguous :
        LET rule    == regimeRows[i].rule
            learned == learnedStates[i]
            conf    == learnedConfidence[i]
            htf     == regimeRows[i].htfState
            gate    == regimeOpts.confidenceGate
        IN  combinedStates[i] =
                IF htf = "U" /\ learned = "D" THEN "R"
                ELSE IF htf = "D" /\ learned = "U" THEN "B"
                ELSE IF RLe(gate, conf) THEN learned ELSE rule

\* C24 amended: the demotion to Reversal or Base happens only when
\* confidence > gate; with confidence <= gate the contradicted learned label
\* gives way to the rule label.
C24_DemotedAboveGateOnly ==
    \A i \in Ambiguous :
        LET rule    == regimeRows[i].rule
            learned == learnedStates[i]
            conf    == learnedConfidence[i]
            htf     == regimeRows[i].htfState
            gate    == regimeOpts.confidenceGate
        IN  combinedStates[i] =
                IF htf = "U" /\ learned = "D" THEN (IF RLt(gate, conf) THEN "R" ELSE rule)
                ELSE IF htf = "D" /\ learned = "U" THEN (IF RLt(gate, conf) THEN "B" ELSE rule)
                ELSE IF RLe(gate, conf) THEN learned ELSE rule

\* a learned Down under a higher-timeframe Up in the ambiguous band, above the
\* gate (demoted to Reversal)
C24_Witness ==
    /\ Ambiguous = {1}
    /\ regimeRows[1].htfState = "U"
    /\ learnedStates[1] = "D"
    /\ regimeRows[1].rule = "B"
    /\ RLt(regimeOpts.confidenceGate, learnedConfidence[1])
    /\ combinedStates[1] = "R"

\* C26 as stated: a row with a non-finite clustering feature has learned
\* state null and confidence 0, and its state in the returned sequence is its
\* rule-based state.
C26_UnclusteredKeepsRule ==
    pc = "inferred" =>
        \A i \in 1..Len(regimeRows) :
            ~regimeRows[i].finite =>
                /\ learnedStates[i] = NullState
                /\ learnedConfidence[i] = Zero
                /\ smoothedStates[i] = regimeRows[i].rule

\* C26 amended: such a row keeps its rule label through the reconciliation,
\* and in the returned sequence unless a smoothing pass finds it to be an
\* isolated one-bar flip and overwrites it with its neighbours' state.
C26_UnclusteredKeepsRuleUnlessSmoothed ==
    pc = "inferred" =>
        \A i \in 1..Len(regimeRows) :
            ~regimeRows[i].finite =>
                /\ learnedStates[i] = NullState
                /\ learnedConfidence[i] = Zero
                /\ combinedStates # <<>> => combinedStates[i] = regimeRows[i].rule
                /\ \/ smoothedStates[i] = regimeRows[i].rule
                   \/ /\ combinedStates # <<>>
                      /\ \/ IsFlip(combinedStates, i)
                         \/ IsFlip(smoothPass(combinedStates), i)

\* a row without features between clustered rows, in a sequence the smoothing
\* changed elsewhere
C26_Witness ==
    /\ pc = "inferred"
    /\ Len(regimeRows) >= 3
    /\ ~regimeRows[2].finite
    /\ regimeRows[1].finite /\ regimeRows[3].finite
    /\ smoothedStates[2] = regimeRows[2].rule
    /\ smoothedStates # combinedStates

----------------------------------------------------------------------------
(* computeClusterProfiles and assignStatesFromClusters on clustered feature rows *)

MaxClusterRows == 3  \* most feature rows handed to computeClusterProfiles

\* k = Math.min(4, ...): cluster indices 0 .. 3
MaxClusters == 4

\* feature rows with different and with equal trend and reversal scores
ClusterFeatureRows ==
    {[ret1 |-> Rat(a, 1), ret4 |-> Rat(b, 1), emaFast |-> Zero, emaSlow |-> Rat(c, 1)] :
        <<a, b, c>> \in {<<0, 0, 0>>, <<0, 1, 0>>, <<0, -1, 0>>, <<0, 0, 2>>, <<2, 0, 0>>}}

InitClusters ==
    /\ pc = "clustered"
    /\ \E n \in 1..MaxClusterRows :
           clusterInput \in [features : [1..n -> ClusterFeatureRows],
                             assignments : [1..n -> 0..(MaxClusters - 1)]]
    /\ profiles = <<>>
    /\ clusterMap = <<>>
    /\ states = <<>>
    /\ IdleEngine /\ IdleSecond /\ IdleDurations /\ IdleRegime

ComputeClusterProfiles ==
    /\ pc = "clustered"
    /\ profiles' = computeClusterProfiles(clusterInput.features, clusterInput.assignments)
    /\ pc' = "profiled"
    /\ UNCHANGED <<states, clusterInput, clusterMap,
                   varsEngine, varsSecond, varsDurations, varsRegime>>

AssignStatesFromClusters ==
    /\ pc = "profiled"
    /\ clusterMap' = assignStatesFromClusters(profiles)
    /\ pc' = "mapped"
    /\ UNCHANGED <<states, clusterInput, profiles,
                   varsEngine, varsSecond, varsDurations, varsRegime>>

NextClusters == ComputeClusterProfiles \/ AssignStatesFromClusters

SpecClusters == InitClusters /\ [][NextClusters]_vars

ClusterIdx == {profiles[i].idx : i \in 1..Len(profiles)}

Profile(c) == profiles[c + 1]

HighestTrend(c) == \A o \in ClusterIdx : RLe(Profile(o).trendScore, Profile(c).trendScore)

LowestTrend(c) == \A o \in ClusterIdx : RLe(Profile(c).trendScore, Profile(o).trendScore)

\* Up, Down, Reversal and Base are given out as the claim says, for some choice
\* among clusters of equal score
AssignedByScores ==
    \E u, d \in ClusterIdx :
        /\ HighestTrend(u) /\ clusterMap[u] = "U"
        /\ LowestTrend(d) /\ clusterMap[d] = "D"
        /\ LET remaining == ClusterIdx \ {u, d}
           IN  \/ remaining = {}
               \/ \E r \in remaining :
                     /\ \A o \in remaining :
                            RLe(Profile(o).reversalScore, Profile(r).reversalScore)
                     /\ clusterMap[r] = "R"
                     /\ \A o \in remaining \ {r} : clusterMap[o] = "B"

\* C27 as stated: every cluster profile is mapped to one state; the cluster
\* with the highest trend score is Up, the one with the lowest trend score is
\* Down, the one with the highest reversal score among the remaining ones is
\* Reversal and all others are Base, for 1 to 4 clusters, empty ones included.
C27_AssignedByScores ==
    pc = "mapped" => (DOMAIN clusterMap = ClusterIdx /\ AssignedByScores)

\* C27 amended: the assignment is as stated for 2 to 4 clusters; a single
\* cluster is both the highest and the lowest in trend and is mapped to Up, so
\* that no cluster is Down.
C27_AssignedByScoresFromTwoClusters ==
    pc = "mapped" =>
        /\ DOMAIN clusterMap = ClusterIdx
        /\ Len(profiles) >= 2 => AssignedByScores
        /\ Len(profiles) = 1 => clusterMap[0] = "U"

\* four clusters, one of them without members, with all four states given out
C27_Witness ==
    /\ pc = "mapped"
    /\ Len(profiles) = 4
    /\ \E c \in ClusterIdx : Profile(c).count = 0
    /\ {clusterMap[c] : c \in ClusterIdx} = StateKeys
    /\ AssignedByScores

----------------------------------------------------------------------------
(* Inputs of the half-life selection *)

\* configured half-lives: below the floor, at it, odd (a half to round),
\* fractional, and the default 300
HalfLifeValues == {Zero, Rat(7, 1), Rat(10, 1), Rat(25, 2), Rat(15, 1), Rat(300, 1), Rat(301, 1)}

\* mean log-likelihoods of scoreTransitionModel: negative numbers or zero
LogLikelihoodValues == {Rat(-2, 1), Rat(-1, 1), Rat(-1, 2), Zero}

\* one score per candidate; with no transition to score every one is NaN
ScoreVectors(n) ==
    [1..n -> LogLikelihoodValues] \cup {[i \in 1..n |-> NaN]}

InitSelector ==
    /\ pc = "input"
    /\ autoCfg \in [autoHalfLife : BOOLEAN, halfLife : HalfLifeValues]
    /\ scores \in ScoreVectors(Len(halfLifeCandidates(autoCfg)))
    /\ bestHalfLife = autoCfg.halfLife
    /\ states = <<>>
    /\ IdleEngine /\ IdleApp /\ IdleConditioning /\ IdlePower /\ IdleStore
    /\ IdleLearner

SelectHalfLife ==
    /\ pc = "input"
    /\ bestHalfLife' = selectHalfLife(autoCfg, scores)
    /\ pc' = "selected"
    /\ UNCHANGED <<states, autoCfg, scores, varsEngine, varsApp, varsConditioning,
                   varsPower, varsStore,
                   varsLearner>>

NextSelector == SelectHalfLife

SpecSelector == InitSelector /\ [][NextSelector]_vars

\* the positions of the candidates whose score no other candidate exceeds
MaximalCandidates ==
    {i \in DOMAIN scores : \A k \in DOMAIN scores : ~RLt(scores[i], scores[k])}

\* C13: with automatic selection the half-life used is a candidate of maximal
\* mean log-likelihood, and when several candidates tie for the maximum and
\* the configured half-life is one of them, the configured one is used.
C13_MaximalAndTiesToConfigured ==
    (pc = "selected" /\ autoCfg.autoHalfLife /\ \A i \in DOMAIN scores : IsFinite(scores[i]))
        => LET candidates == halfLifeCandidates(autoCfg)
           IN  /\ \E i \in MaximalCandidates : candidates[i] = bestHalfLife
               /\ (/\ Cardinality(MaximalCandidates) > 1
                   /\ \E i \in MaximalCandidates : candidates[i] = autoCfg.halfLife)
                      => bestHalfLife = autoCfg.halfLife

----------------------------------------------------------------------------
(* Inputs of the model store: every item localStorage can hold under the key *)

\* no item, the empty text, a text that is not JSON, JSON that is not an
\* object, and objects with each property right, wrong (an array too short,
\* an array holding null, a number where an array belongs) or missing
StoredItems ==
    LET fitted   == Jsonify(JsModel(fittedLogitModel))[2]
        shortRow == JsArray(<<JsNumber(One)>>)
        nullRow  == JsArray(<<JsNull>>)
        WithProperties(w, b, temperature, mean, std) ==
            LET chosen == [W |-> w, b |-> b, temperature |-> temperature,
                           mean |-> mean, std |-> std]
            IN  JsObject([k \in {n \in DOMAIN chosen : chosen[n] # JsUndefined} |-> chosen[k]])
    IN  {NoItem, <<"text", "">>, <<"text", "{W:">>,
         <<"json", JsNull>>, <<"json", JsArray(<<>>)>>, <<"json", JsNumber(One)>>}
        \cup {<<"json", WithProperties(w, b, t, m, sd)>> :
                  w \in {fitted.W, JsUndefined, JsArray(<<>>), JsArray(<<shortRow>>),
                         JsArray(<<nullRow>>), JsArray(<<JsNumber(One)>>), JsNumber(One)},
                  b \in {fitted.b, JsUndefined, JsArray(<<>>), nullRow},
                  t \in {fitted.temperature, JsUndefined, JsNull, JsArray(<<>>)},
                  m \in {fitted.mean, JsUndefined, JsArray(<<>>)},
                  sd \in {fitted.std, JsUndefined, shortRow, nullRow}}

\* the models the program can hold: defaultLogitModel() and fitLogitModel's result
ProducedModels == {defaultLogitModel, fittedLogitModel}

InitStore ==
    /\ pc = "idle"
    /\ storage \in StoredItems
    /\ logitModel \in ProducedModels
    /\ loaded = JsNull
    /\ features = <<>> /\ rowConditioned = <<>>
    /\ states = <<>>
    /\ IdleEngine /\ IdleApp /\ IdleSelector /\ IdlePower
    /\ IdleLearner

\* saveLogitModel(model) with the model the program holds
SaveLogitModel ==
    /\ storage' = saveLogitModel(logitModel)
    /\ pc' = "saved"
    /\ UNCHANGED <<states, loaded, features, logitModel, rowConditioned,
                   varsEngine, varsApp, varsSelector, varsPower,
                   varsLearner>>

\* loadLogitModel(); pc records whether it follows a save or a clear
LoadLogitModel ==
    /\ loaded' = loadLogitModel(storage)
    /\ pc' = IF pc = "saved" THEN "roundTrip"
             ELSE IF pc = "cleared" THEN "loadedAfterClear"
             ELSE IF pc \in {"roundTrip", "loadedAfterClear"} THEN pc
             ELSE "loaded"
    /\ UNCHANGED <<states, storage, features, logitModel, rowConditioned,
                   varsEngine, varsApp, varsSelector, varsPower,
                   varsLearner>>

\* clearLogitModel()
ClearLogitModel ==
    /\ storage' = clearLogitModel
    /\ pc' = "cleared"
    /\ UNCHANGED <<states, loaded, features, logitModel, rowConditioned,
                   varsEngine, varsApp, varsSelector, varsPower,
                   varsLearner>>

NextStore == SaveLogitModel \/ LoadLogitModel \/ ClearLogitModel

SpecStore == InitStore /\ [][NextStore]_vars

\* W is 4 x FEATURE_DIM, b has 4 entries, mean and std have FEATURE_DIM
\* entries, and the temperature and every entry is a finite number
WellShaped(value) ==
    /\ value[1] = "object"
    /\ DOMAIN value[2] = {"W", "b", "temperature", "mean", "std"}
    /\ LET HasNumbers(arr, n) == IsArray(arr) /\ Len(arr[2]) = n /\ EveryFinite(arr)
       IN  /\ IsArray(value[2].W) /\ Len(value[2].W[2]) = STATE_COUNT
           /\ \A j \in 1..Len(value[2].W[2]) : HasNumbers(value[2].W[2][j], FEATURE_DIM)
           /\ HasNumbers(value[2].b, STATE_COUNT)
           /\ HasNumbers(value[2].mean, FEATURE_DIM)
           /\ HasNumbers(value[2].std, FEATURE_DIM)
           /\ IsFiniteNumber(value[2].temperature)

\* C18: loadLogitModel returns a model only when the stored blob has the
\* right shapes (W 4 x FEATURE_DIM, b 4, mean and std FEATURE_DIM) and only
\* finite numbers; for every other item it returns null.
C18_LoadsOnlyWellShaped ==
    pc \in {"loaded", "roundTrip", "loadedAfterClear"}
        => (loaded # JsNull => WellShaped(loaded))

\* C19: a model saved and then loaded comes back equal to the model saved,
\* for the default model and for a fitted one; after a clear, load gives null.
C19_RoundTrip ==
    /\ pc = "roundTrip" => loaded = JsModel(logitModel)
    /\ pc = "loadedAfterClear" => loaded = JsNull

----------------------------------------------------------------------------
(* Inputs of the order-2 context model *)

\* a history that cycles through a pattern
CycleSeq(pattern, n) == [i \in 1..n |-> pattern[((i - 1) % Len(pattern)) + 1]]

Order2Histories ==
    SeqsOf(0, MaxLen) \cup
    {CycleSeq(p, n) : p \in SeqsOf(1, 2), n \in (MaxCycleLen - 3)..MaxCycleLen}

MinCounts == {1, 2, MinCountDefault}

InitOrder2 ==
    /\ pc = "input"
    /\ states \in Order2Histories
    /\ table = <<>>
    /\ pair = <<>>
    /\ minCount = 0
    /\ rowOrder2 = Null
    /\ IdleBuild /\ IdleSemi /\ IdleBlend /\ IdleForecast /\ IdleFetch /\ IdleKMeans /\ IdleRest

BuildOrder2Counts ==
    /\ pc = "input"
    /\ table' = buildOrder2Counts(states)
    /\ pc' = "counted"
    /\ UNCHANGED <<states, pair, minCount, rowOrder2, varsBuild, varsSemi, varsBlend, varsForecast, varsFetch, varsKMeans, varsRest>>

RowFromOrder2 ==
    /\ pc = "counted"
    /\ \E key \in PairKeys, min \in MinCounts :
          /\ pair' = key
          /\ minCount' = min
          /\ rowOrder2' = rowFromOrder2(table, key, min)
    /\ pc' = "order2"
    /\ UNCHANGED <<states, table, varsBuild, varsSemi, varsBlend, varsForecast, varsFetch, varsKMeans, varsRest>>

NextOrder2 == BuildOrder2Counts \/ RowFromOrder2

SpecOrder2 == InitOrder2 /\ [][NextOrder2]_vars

\* occurrences in the history of the pair followed by the state of index j
TripleCount(sts, key, j) ==
    Cardinality({i \in 1..(Len(sts) - 2) :
                    sts[i] = key[1] /\ sts[i + 1] = key[2] /\ IDX[sts[i + 2]] = j})

PairTotal(sts, key) ==
    TripleCount(sts, key, 0) + TripleCount(sts, key, 1)
        + TripleCount(sts, key, 2) + TripleCount(sts, key, 3)

\* C7: rowFromOrder2 returns null when the pair's observed count is below the
\* minimum count (also for a pair never observed); otherwise it returns the
\* row (count + 0.5) / (total + 2): four positive entries summing to 1.
C7_Order2Threshold ==
    pc = "order2" =>
        LET total == PairTotal(states, pair)
        IN  IF total < minCount THEN rowOrder2 = Null
            ELSE /\ rowOrder2 # Null
                 /\ IsProbRow(rowOrder2)
                 /\ \A j \in Idx :
                       /\ RLt(Zero, rowOrder2[j])
                       /\ rowOrder2[j] = Rat(2 * TripleCount(states, pair, j) + 1, 2 * total + 4)

\* the default minimum met exactly: twelve observations of the pair give a row
C7_Witness ==
    /\ pc = "order2"
    /\ minCount = MinCountDefault
    /\ PairTotal(states, pair) = MinCountDefault
    /\ rowOrder2 # Null

----------------------------------------------------------------------------
(* hooks/useBybitData.ts *)

FetchKeys == [symbol : {"BTCUSDT", "ETHUSDT"}, interval : {"60"}, limit : {500}]

\* refreshMs: null (0) or a period in milliseconds
RefreshChoices == {0, 60000}

Pending == {i \in 1..Len(requests) : requests[i].status = "pending"}

\* fetchNow up to its first await: setLoading(true) and the request goes out
FetchNow(key) ==
    /\ Len(requests) < MaxFetches
    /\ loading' = TRUE
    /\ requests' = Append(requests, [key |-> key, status |-> "pending"])

\* the state after the first render and its mount effect
InitFetch ==
    /\ pc = "mounted"
    /\ props \in [key : FetchKeys, refreshMs : RefreshChoices]
    /\ data = 0
    /\ error = 0
    /\ loading = TRUE
    /\ tick = 0
    /\ requests = <<[key |-> props.key, status |-> "pending"]>>
    /\ states = <<>>
    /\ IdleBuild /\ IdleSemi /\ IdleBlend /\ IdleForecast /\ IdleOrder2 /\ IdleKMeans /\ IdleRest

\* setInterval(fetchNow, refreshMs) fires
TimerTick ==
    /\ props.refreshMs # 0
    /\ FetchNow(props.key)
    /\ UNCHANGED <<pc, states, props, data, error, tick,
                   varsBuild, varsSemi, varsBlend, varsForecast, varsOrder2, varsKMeans, varsRest>>

\* the consumer calls refetch
Refetch ==
    /\ FetchNow(props.key)
    /\ UNCHANGED <<pc, states, props, data, error, tick,
                   varsBuild, varsSemi, varsBlend, varsForecast, varsOrder2, varsKMeans, varsRest>>

\* symbol / interval / limit change: fetchNow is rebuilt and the effect calls it
ChangeParams ==
    /\ \E key \in FetchKeys \ {props.key} :
          /\ props' = [props EXCEPT !.key = key]
          /\ FetchNow(key)
    /\ UNCHANGED <<pc, states, data, error, tick,
                   varsBuild, varsSemi, varsBlend, varsForecast, varsOrder2, varsKMeans, varsRest>>

\* refreshMs changes: only the interval effect runs again
ChangeRefresh ==
    /\ \E ms \in RefreshChoices \ {props.refreshMs} : props' = [props EXCEPT !.refreshMs = ms]
    /\ UNCHANGED <<pc, states, data, error, loading, tick, requests,
                   varsBuild, varsSemi, varsBlend, varsForecast, varsOrder2, varsKMeans, varsRest>>

\* a response with retCode 0 arrives: setData, setError(null), finally
Resolve ==
    /\ \E i \in Pending :
          /\ data' = i
          /\ requests' = [requests EXCEPT ![i].status = "ok"]
    /\ error' = 0
    /\ loading' = FALSE
    /\ tick' = tick + 1
    /\ UNCHANGED <<pc, states, props, varsBuild, varsSemi, varsBlend, varsForecast, varsOrder2, varsKMeans, varsRest>>

\* the fetch rejects, the body does not parse or retCode is not 0: catch, finally
Reject ==
    /\ \E i \in Pending :
          /\ error' = i
          /\ requests' = [requests EXCEPT ![i].status = "failed"]
    /\ loading' = FALSE
    /\ tick' = tick + 1
    /\ UNCHANGED <<pc, states, props, data, varsBuild, varsSemi, varsBlend, varsForecast, varsOrder2, varsKMeans, varsRest>>

NextFetch ==
    \/ TimerTick
    \/ Refetch
    \/ ChangeParams
    \/ ChangeRefresh
    \/ Resolve
    \/ Reject

SpecFetch == InitFetch /\ [][NextFetch]_vars

\* C9: once every fetch has settled, the published data is the result of the
\* most recently triggered request (stated for a latest request that succeeded).
C9_LatestResultPublished ==
    (Pending = {} /\ Len(requests) >= 2 /\ requests[Len(requests)].status = "ok")
        => data = Len(requests)

\* C10: at most one fetch is in flight per (symbol, interval, limit) key.
C10_SingleFlightPerKey ==
    \A key \in FetchKeys : Cardinality({i \in Pending : requests[i].key = key}) <= 1

\* C30: the loading flag is true whenever at least one fetch is in flight.
C30_LoadingWhileInFlight == Pending # {} => loading = TRUE

----------------------------------------------------------------------------
(* App.tsx : the calc memo over the hook's candles and the configuration *)

MinRows == 210

\* lengths of the candle list a response carries: empty, one short of the
\* minimum, and the minimum
RowCounts == {0, 209, 210}

\* the cfg memo: a new object whenever a control changes
Configs == {"window1200", "window600"}

\* try { computeAll(candles, cfg) } catch: the call returns or throws
Outcomes == {"returned", "threw"}

NoData == [kind |-> "null", candles |-> 0, cfg |-> ""]

declines_OneRowFewer(candles, rows) == candles = 0 \/ rows < MinRows - 1

\* !candles || candles.length < 210
declines(candles, rows) == candles = 0 \/ rows < MinRows

\* the body of the calc memo for the candles of request `candles` (0 for
\* null) with `rows` rows; outcome is what the computeAll call does
calcMemo(candles, rows, config, outcome) ==
    IF declines(candles, rows) THEN NoData
    ELSE IF outcome = "returned"
         THEN [kind |-> "result", candles |-> candles, cfg |-> config]
         ELSE [kind |-> "error", candles |-> candles, cfg |-> config]

\* what the evaluation of the memo did
computeStep(candles, rows, outcome) ==
    IF declines(candles, rows) THEN "declined" ELSE outcome

\* the state after the first render and its mount effect: candles are null
InitApp ==
    /\ pc = "mounted"
    /\ props \in [key : FetchKeys, refreshMs : {60000}]
    /\ data = 0
    /\ error = 0
    /\ loading = TRUE
    /\ tick = 0
    /\ requests = <<[key |-> props.key, status |-> "pending"]>>
    /\ candleRows = 0
    /\ cfg \in Configs
    /\ calc = NoData
    /\ lastCompute = "declined"
    /\ states = <<>>
    /\ IdleBuild /\ IdleSemi /\ IdleBlend /\ IdleForecast /\ IdleOrder2 /\ IdleKMeans
    /\ IdleSelector /\ IdleConditioning /\ IdlePower /\ IdleStore
    /\ IdleLearner

\* the timer fires or the consumer calls refetch; candles and cfg keep their
\* identity, so the memo is not evaluated
AppRefetch ==
    /\ FetchNow(props.key)
    /\ lastCompute' = "none"
    /\ UNCHANGED <<pc, states, props, data, error, tick, candleRows, cfg, calc,
                   varsBuild, varsSemi, varsBlend, varsForecast, varsOrder2, varsKMeans,
                   varsSelector, varsConditioning, varsPower, varsStore,
                   varsLearner>>

\* the symbol changes: a new fetch; the memo is not evaluated
AppChangeParams ==
    /\ \E key \in FetchKeys \ {props.key} :
          /\ props' = [props EXCEPT !.key = key]
          /\ FetchNow(key)
    /\ lastCompute' = "none"
    /\ UNCHANGED <<pc, states, data, error, tick, candleRows, cfg, calc,
                   varsBuild, varsSemi, varsBlend, varsForecast, varsOrder2, varsKMeans,
                   varsSelector, varsConditioning, varsPower, varsStore,
                   varsLearner>>

\* a response arrives: setData(candles), setError(null), and the render that
\* follows evaluates the memo on the new candles
AppResolve ==
    /\ \E i \in Pending, rows \in RowCounts, outcome \in Outcomes :
          /\ data' = i
          /\ candleRows' = rows
          /\ requests' = [requests EXCEPT ![i].status = "ok"]
          /\ calc' = calcMemo(i, rows, cfg, outcome)
          /\ lastCompute' = computeStep(i, rows, outcome)
    /\ error' = 0
    /\ loading' = FALSE
    /\ tick' = tick + 1
    /\ UNCHANGED <<pc, states, props, cfg,
                   varsBuild, varsSemi, varsBlend, varsForecast, varsOrder2, varsKMeans,
                   varsSelector, varsConditioning, varsPower, varsStore,
                   varsLearner>>

\* the fetch fails: setError only; candles keep their identity and the memo
\* is not evaluated
AppReject ==
    /\ \E i \in Pending :
          /\ error' = i
          /\ requests' = [requests EXCEPT ![i].status = "failed"]
    /\ loading' = FALSE
    /\ tick' = tick + 1
    /\ lastCompute' = "none"
    /\ UNCHANGED <<pc, states, props, data, candleRows, cfg, calc,
                   varsBuild, varsSemi, varsBlend, varsForecast, varsOrder2, varsKMeans,
                   varsSelector, varsConditioning, varsPower, varsStore,
                   varsLearner>>

\* a control changes: cfg is a new object and the memo is evaluated on the
\* candles already published
AppChangeConfig ==
    /\ \E config \in Configs \ {cfg}, outcome \in Outcomes :
          /\ cfg' = config
          /\ calc' = calcMemo(data, candleRows, config, outcome)
          /\ lastCompute' = computeStep(data, candleRows, outcome)
    /\ UNCHANGED <<pc, states, props, data, error, loading, tick, requests, candleRows,
                   varsBuild, varsSemi, varsBlend, varsForecast, varsOrder2, varsKMeans,
                   varsSelector, varsConditioning, varsPower, varsStore,
                   varsLearner>>

NextApp ==
    \/ AppRefetch
    \/ AppChangeParams
    \/ AppResolve
    \/ AppReject
    \/ AppChangeConfig

SpecApp == InitApp /\ [][NextApp]_vars

\* C11: a step in which a fetch fails leaves the published candles and the
\* computed result as they were, and a step in which computeAll throws leaves
\* the previously computed result in place.
C11_FailureKeepsPrior ==
    [][/\ (error' # error /\ error' # 0)
           => (data' = data /\ candleRows' = candleRows /\ calc' = calc)
       /\ lastCompute' = "threw" => calc' = calc]_vars

\* C12: with no candles or fewer than 210 rows the result is the no-data
\* value, and computeAll is only called on at least 210 rows.
C12_DeclinesBelowMinRows ==
    /\ (data = 0 \/ candleRows < MinRows) => calc = NoData
    /\ calc.kind \in {"result", "error"} => (data # 0 /\ candleRows >= MinRows)
    /\ lastCompute \in Outcomes => candleRows >= MinRows

\* a list of 209 rows replaced an earlier result and the memo declined
C12_Witness ==
    /\ data > 1
    /\ candleRows = MinRows - 1
    /\ requests[1].status = "ok"
    /\ lastCompute = "declined"
    /\ calc = NoData

----------------------------------------------------------------------------
(* lib/regimeModel.ts : euclideanSquared, initCentroids, kMeans *)

Infinity == <<1, 0>>

RECURSIVE SquaredTo(_, _, _)
SquaredTo(a, b, n) ==
    IF n = 0 THEN Zero
    ELSE LET diff == RSub(a[n], b[n]) IN RAdd(SquaredTo(a, b, n - 1), RMul(diff, diff))

euclideanSquared(a, b) == SquaredTo(a, b, Len(a))

\* the inner loop over the centroids: smallest squared distance from point
RECURSIVE MinDist(_, _, _)
MinDist(point, centroids, n) ==
    IF n = 0 THEN Infinity
    ELSE LET rest == MinDist(point, centroids, n - 1)
             dist == euclideanSquared(point, centroids[n])
         IN  IF RLt(dist, rest) THEN dist ELSE rest

\* the scan for bestIndex: the first point (0-based index) whose minimum
\* distance to the centroids is largest
RECURSIVE FarthestScan(_, _, _)
FarthestScan(points, centroids, n) ==
    IF n = 0 THEN [bestIndex |-> 0, bestDist |-> <<-1, 0>>]
    ELSE LET prev    == FarthestScan(points, centroids, n - 1)
             minDist == MinDist(points[n], centroids, Len(centroids))
         IN  IF RLt(prev.bestDist, minDist) THEN [bestIndex |-> n - 1, bestDist |-> minDist]
             ELSE prev

RECURSIVE GrowCentroids(_, _, _)
GrowCentroids(points, centroids, k) ==
    IF Len(centroids) >= k THEN centroids
    ELSE GrowCentroids(points,
                       Append(centroids, points[FarthestScan(points, centroids, Len(points)).bestIndex + 1]),
                       k)

initCentroids(points, k) ==
    IF Len(points) = 0 THEN <<>>
    ELSE GrowCentroids(points, <<points[(Len(points) \div 2) + 1]>>, k)

\* the loop over c: the first centroid (0-based) at the smallest distance
RECURSIVE NearestScan(_, _, _)
NearestScan(point, centroids, n) ==
    IF n = 0 THEN [best |-> 0, bestDist |-> Infinity]
    ELSE LET prev == NearestScan(point, centroids, n - 1)
             dist == euclideanSquared(point, centroids[n])
         IN  IF RLt(dist, prev.bestDist) THEN [best |-> n - 1, bestDist |-> dist] ELSE prev

\* sums[cluster][d] / counts[cluster]
RECURSIVE SumOver(_, _, _)
SumOver(points, members, d) ==
    IF members = {} THEN Zero
    ELSE LET i == CHOOSE m \in members : TRUE
         IN  RAdd(points[i][d], SumOver(points, members \ {i}, d))

ClusterMean(points, members) ==
    [d \in 1..Len(points[1]) |-> RDiv(SumOver(points, members, d), Rat(Cardinality(members), 1))]

MaxIter == 60

\* the state of a kMeans call before its first iteration
KMeansStart(points, k) ==
    [centroids   |-> initCentroids(points, k),
     assignments |-> [i \in 1..Len(points) |-> 0],
     distances   |-> [i \in 1..Len(points) |-> Zero],
     iter        |-> 0,
     returned    |-> Len(points) = 0]

\* the assignment pass of one iteration; distances holds the squared distance
\* (the code stores its square root)
AssignPass(points, run) ==
    LET scan == [i \in 1..Len(points) |-> NearestScan(points[i], run.centroids, Len(run.centroids))]
    IN  [assignments |-> [i \in 1..Len(points) |-> scan[i].best],
         distances   |-> [i \in 1..Len(points) |-> RMax(scan[i].bestDist, Zero)],
         moved       |-> \E i \in 1..Len(points) : run.assignments[i] # scan[i].best]

Members(assignments, c) == {i \in 1..Len(assignments) : assignments[i] = c}

\* one iteration of the for loop; reseed maps each empty cluster to the data
\* index Math.floor(Math.random() * data.length) drew for it
KMeansIteration(points, k, run, reseed) ==
    LET pass == AssignPass(points, run)
    IN  IF ~pass.moved /\ run.iter > 1
        THEN [run EXCEPT !.assignments = pass.assignments,
                         !.distances = pass.distances,
                         !.returned = TRUE]
        ELSE [centroids   |-> [c \in 1..k |->
                                 IF Members(pass.assignments, c - 1) = {}
                                 THEN points[reseed[c - 1] + 1]
                                 ELSE ClusterMean(points, Members(pass.assignments, c - 1))],
              assignments |-> pass.assignments,
              distances   |-> pass.distances,
              iter        |-> run.iter + 1,
              returned    |-> run.iter + 1 >= MaxIter]

EmptyClusters(points, k, run) ==
    {c \in 0..(k - 1) : Members(AssignPass(points, run).assignments, c) = {}}

\* stats[cluster].count of computeClusterProfiles
ClusterCounts(assignments) ==
    LET top == CHOOSE m \in {assignments[i] : i \in 1..Len(assignments)} :
                   \A i \in 1..Len(assignments) : assignments[i] <= m
    IN  [c \in 0..top |-> Cardinality(Members(assignments, c))]

\* what inferRegimeStates reads off a finished kMeans call
KMeansResult(run) ==
    [assignments |-> run.assignments,
     distances   |-> run.distances,
     counts      |-> ClusterCounts(run.assignments)]

----------------------------------------------------------------------------
(* Inputs of the regime learner: one-dimensional standardized feature rows *)

Points(values) == [i \in 1..Len(values) |-> <<Rat(values[i], 1)>>]

KMeansData ==
    { Points(<<-11, -6, -6, -6, 10, 10, 10, 0, 11, 11, 11, 11, 11, 11, 20>>),
      Points(<<0, 0, 4, 4>>),
      Points(<<0, 1, 5, 6, 10>>),
      Points(<<3, 3, 3>>) }

\* k = Math.min(4, new Set(ruleStates).size || 4)
ClusterCountChoices == 1..STATE_COUNT

InitKMeans ==
    /\ pc = "run1"
    /\ kmData \in KMeansData
    /\ kmK \in ClusterCountChoices
    /\ km = KMeansStart(kmData, kmK)
    /\ kmFirst = KMeansResult(km)
    /\ states = <<>>
    /\ IdleBuild /\ IdleSemi /\ IdleBlend /\ IdleForecast /\ IdleOrder2 /\ IdleFetch /\ IdleRest

\* one iteration of the running kMeans call
KMeansStep ==
    /\ pc \in {"run1", "run2"}
    /\ ~km.returned
    /\ \E reseed \in [EmptyClusters(kmData, kmK, km) -> 0..(Len(kmData) - 1)] :
          km' = KMeansIteration(kmData, kmK, km, reseed)
    /\ UNCHANGED <<pc, states, kmData, kmK, kmFirst,
                   varsBuild, varsSemi, varsBlend, varsForecast, varsOrder2, varsFetch, varsRest>>

\* the first run has returned; the engine is run again on the same input
SecondRun ==
    /\ pc = "run1"
    /\ km.returned
    /\ kmFirst' = KMeansResult(km)
    /\ km' = KMeansStart(kmData, kmK)
    /\ pc' = "run2"
    /\ UNCHANGED <<states, kmData, kmK,
                   varsBuild, varsSemi, varsBlend, varsForecast, varsOrder2, varsFetch, varsRest>>

\* the second run has returned
BothReturned ==
    /\ pc = "run2"
    /\ km.returned
    /\ pc' = "ran"
    /\ UNCHANGED <<states, varsKMeans,
                   varsBuild, varsSemi, varsBlend, varsForecast, varsOrder2, varsFetch, varsRest>>

NextKMeans == KMeansStep \/ SecondRun \/ BothReturned

SpecKMeans == InitKMeans /\ [][NextKMeans]_vars

\* C8: two runs on the same rows and configuration produce the same cluster
\* assignments, distances (hence confidence) and cluster profiles, also when
\* k-means reseeds an empty cluster.
C8_Deterministic ==
    pc = "ran" => KMeansResult(km) = kmFirst

====
